---- MODULE Spec2Model ----
(***************************************************************************)
(* Model of agents/code_audit_agent.py (class CodeAuditAgent), of the      *)
(* GitHub tools and the workflow graph of app/agent.py, of                 *)
(* LeadDeveloperAgent.commit_code_changes and of                           *)
(* app/utils/github_integration.py (class GitHubIntegration).              *)
(*                                                                         *)
(* A source file is its statements in source order, each a record with its *)
(* indentation depth, and whether its text ends with a line break;         *)
(* ast.parse either raises or turns it into a tree whose nodes are those   *)
(* statements (the parent of a statement is the nearest earlier statement  *)
(* indented one level less; node 0 is the Module).  ast.walk is the        *)
(* breadth-first traversal of the ast module.  Text is a sequence of       *)
(* characters (a word that holds no line boundary may stand as one).       *)
(***************************************************************************)
EXTENDS Integers, Sequences, FiniteSets, TLC

VARIABLES
    vulnerability_db,         \* self.vulnerability_db
    file_content,             \* argument of the three AST operations
    file_path,                \* argument of generate_documentation
    function_name,            \* argument of create_qa_tests
    dependency_file_content,  \* argument of scan_for_security_issues
    call,                     \* the operation that returned last ("none" at first)
    result,                   \* what that call returned, or the exception it raised
    invocations,              \* the calls that run side by side: arguments, position, locals
    GITHUB_TOKEN,             \* os.getenv("GITHUB_TOKEN")
    github_integration_instance,  \* the module's GitHubIntegration, or None
    repositories,             \* GitHub: the repositories of the authenticated user
    tool_calls,               \* the GitHub tools that returned: name, arguments, result, API calls
    graph_node,               \* the node of the workflow graph that runs next
    messages                  \* state["messages"] of the workflow

\* the state of app/agent.py
githubVars == <<GITHUB_TOKEN, github_integration_instance, repositories, tool_calls, graph_node, messages>>

vars == <<vulnerability_db, file_content, file_path, function_name, dependency_file_content, call, result, invocations, githubVars>>

----------------------------------------------------------------------------
(* Bounds of the model *)

MaxLines == 2      \* statements per source file
MaxHandlers == 5   \* except clauses of one try statement
MaxValues == 3     \* operands of one chained boolean expression
MaxInvocations == 3  \* calls that run side by side on one agent

----------------------------------------------------------------------------
(* Python values *)

PyNone == [type |-> "None"]
PyStr(s) == [type |-> "str", value |-> s]
PyList(l) == [type |-> "list", value |-> l]

\* bool(v) for the values tested by the code: None, "" and [] are false
Truthy(v) == v.type # "None" /\ v.value # <<>>

Range(s) == {s[i] : i \in DOMAIN s}

RECURSIVE SumSeq(_)
SumSeq(s) == IF s = <<>> THEN 0 ELSE Head(s) + SumSeq(Tail(s))

RECURSIVE Repeat(_, _)
Repeat(x, n) == IF n = 0 THEN <<>> ELSE <<x>> \o Repeat(x, n - 1)

\* the concatenation of a sequence of sequences
RECURSIVE Concat(_)
Concat(seqs) == IF seqs = <<>> THEN <<>> ELSE Head(seqs) \o Concat(Tail(seqs))

\* the line boundaries of str.splitlines() that a text of the model can hold
\* (the others are \v, \x1c, \x1d, \x1e, \x85, \u2028 and \u2029)
LineBoundaries == {"\n", "\r", "\f"}

\* str.splitlines(): the text cut at each line boundary, "\r\n" being one
\* boundary; a boundary at the very end opens no further line
RECURSIVE SplitLines(_, _, _)
SplitLines(text, line, lines) ==
    IF text = <<>> THEN (IF line = <<>> THEN lines ELSE Append(lines, line))
    ELSE IF Len(text) > 1 /\ text[1] = "\r" /\ text[2] = "\n"
    THEN SplitLines(Tail(Tail(text)), <<>>, Append(lines, line))
    ELSE IF Head(text) \in LineBoundaries
    THEN SplitLines(Tail(text), <<>>, Append(lines, line))
    ELSE SplitLines(Tail(text), Append(line, Head(text)), lines)

splitlines(text) == SplitLines(text, <<>>, <<>>)

\* the text of lines each but the last followed by a line break
RECURSIVE JoinLines(_)
JoinLines(lines) ==
    IF lines = <<>> THEN <<>>
    ELSE IF Len(lines) = 1 THEN lines[1]
    ELSE lines[1] \o <<"\n">> \o JoinLines(Tail(lines))

----------------------------------------------------------------------------
(* Statements of a source file *)

NoParams == <<>>

Stmt(kind, name, params, value, handlers) ==
    [indent |-> 0, kind |-> kind, name |-> name, params |-> params,
     value |-> value, handlers |-> handlers]

DefStmt(kind, name, params) == Stmt(kind, name, params, PyNone, 0)
ClassStmt(name) == Stmt("ClassDef", name, NoParams, PyNone, 0)
BlockStmt(kind) == Stmt(kind, "", NoParams, PyNone, 0)
TryStmt(h) == Stmt("Try", "", NoParams, PyNone, h)
ExprStmt(value) == Stmt("Expr", "", NoParams, value, 0)

\* expression statements: a name, a string literal, a chained boolean expression
NameExpr == [type |-> "Name"]
StrExpr(s) == [type |-> "Constant", s |-> s]
BoolOpExpr(op, n) == [type |-> "BoolOp", op |-> op, nvalues |-> n]

\* lines ast.parse cannot turn into a tree
InvalidLine == Stmt("<invalid>", "", NoParams, PyNone, 0)      \* e.g. "def f(:"
SurrogateLine == Stmt("<surrogate>", "", NoParams, PyNone, 0)  \* a lone surrogate character
DeepLine == Stmt("<deep>", "", NoParams, PyNone, 0)            \* an expression nested too deeply

DefKinds == {"FunctionDef", "AsyncFunctionDef"}
BlockKinds == {"If", "For", "While", "With", "AsyncFor", "AsyncWith"}
CompoundKinds == DefKinds \cup BlockKinds \cup {"ClassDef", "Try"}

\* the sources of at most n statements over the vocabulary V; a statement is
\* indented at most one level deeper than the one before it
Indented(V, n) == {[v EXCEPT !.indent = d] : v \in V, d \in 0..(n - 1)}

StepIndented(s) ==
    \A i \in DOMAIN s : s[i].indent <= (IF i = 1 THEN 0 ELSE s[i - 1].indent + 1)

Sources(V, n) ==
    UNION {{s \in [1..k -> Indented(V, k)] : StepIndented(s)} : k \in 0..n}

\* a source file: its statements, and whether its text ends with a line break
SourceFile(body, final_newline) == [body |-> body, final_newline |-> final_newline]

Files(V, n) == {SourceFile(b, e) : b \in Sources(V, n), e \in BOOLEAN}

EmptyFile == SourceFile(<<>>, FALSE)

\* the lines one statement is written on: its own (a string literal with the
\* characters it holds, any other statement as one word), then its except
\* clauses, or its finally clause when it has none
SourceLines(stmt) ==
    LET margin == Repeat(" ", stmt.indent)
    IN  IF stmt.kind = "Expr" /\ stmt.value.type = "Constant"
        THEN <<margin \o <<"'">> \o stmt.value.s \o <<"'">>>>
        ELSE IF stmt.kind = "Try"
        THEN <<margin \o <<"try:">>>>
             \o (IF stmt.handlers = 0 THEN <<margin \o <<"finally:">>>>
                 ELSE Repeat(margin \o <<"except:">>, stmt.handlers))
        ELSE <<margin \o <<stmt.kind>>>>

\* the text of a source file
SourceText(src) ==
    JoinLines(Concat([i \in DOMAIN src.body |-> SourceLines(src.body[i])]))
    \o (IF src.final_newline THEN <<"\n">> ELSE <<>>)

----------------------------------------------------------------------------
(* The ast module *)

Raise(type, msg) == [raised |-> type, msg |-> msg]

\* a line the parser rejects: not a statement, or indented under a simple statement
SyntaxErrorAt(src, i) ==
    \/ src[i].kind = "<invalid>"
    \/ src[i].indent > (IF i = 1 THEN 0
                        ELSE IF src[i - 1].kind \in CompoundKinds THEN src[i - 1].indent + 1
                        ELSE src[i - 1].indent)

SyntaxErrorMsg(src, i) ==
    [msg |-> IF src[i].kind = "<invalid>" THEN "invalid syntax" ELSE "unexpected indent",
     lineno |-> i]

\* ast.parse(file_content): the text is encoded first (UnicodeEncodeError), then
\* parsed (SyntaxError at the first bad line), then the tree is built
\* (RecursionError or MemoryError when the nesting is too deep)
ast_parse(src) ==
    LET body == src.body
        bad == {i \in DOMAIN body : SyntaxErrorAt(body, i)}
    IN  IF \E i \in DOMAIN body : body[i].kind = "<surrogate>"
        THEN Raise("UnicodeEncodeError", PyNone)
        ELSE IF bad # {}
        THEN Raise("SyntaxError", SyntaxErrorMsg(body, CHOOSE i \in bad : \A j \in bad : i <= j))
        ELSE IF \E i \in DOMAIN body : body[i].kind = "<deep>"
        THEN Raise("RecursionError", PyNone)
        ELSE [raised |-> "none", tree |-> body]

Module == 0

Parent(tree, i) ==
    IF tree[i].indent = 0 THEN Module
    ELSE CHOOSE j \in 1..(i - 1) :
            /\ tree[j].indent = tree[i].indent - 1
            /\ \A k \in (j + 1)..(i - 1) : tree[k].indent >= tree[i].indent

Indexes(tree) == [i \in 1..Len(tree) |-> i]

\* node.body: the statements directly under a node, in source order
Body(tree, n) == SelectSeq(Indexes(tree), LAMBDA i : Parent(tree, i) = n)

\* ast.walk(node): breadth first, a node before its children, the children of a
\* node queued after everything already in the queue
RECURSIVE WalkQueue(_, _, _)
WalkQueue(tree, todo, out) ==
    IF todo = <<>> THEN out
    ELSE WalkQueue(tree, Tail(todo) \o Body(tree, Head(todo)), Append(out, Head(todo)))

ast_walk(tree, node) == WalkQueue(tree, <<node>>, <<>>)

\* the lines a statement takes: its own, and one for each of its except clauses
\* (which follow its body); a try without except clauses has its finally clause
LinesOf(stmt) ==
    IF stmt.kind = "Try" /\ stmt.handlers = 0 THEN 2 ELSE 1 + stmt.handlers

\* node.lineno: the lines of the statements before it, except for the clauses of
\* the try statements it is inside of, plus one
lineno(tree, n) ==
    LET Encloses(j) == \A k \in (j + 1)..n : tree[k].indent > tree[j].indent
    IN  1 + SumSeq([j \in 1..(n - 1) |-> IF Encloses(j) THEN 1 ELSE LinesOf(tree[j])])

\* the types of the AST nodes one statement contributes besides its body: the
\* statement itself, its expression (a BoolOp holds one op node, whatever the
\* number of its operands) and its except handlers
NodeTypes(stmt) ==
    IF stmt.kind = "Expr"
    THEN IF stmt.value.type = "BoolOp" THEN <<"Expr", "BoolOp", stmt.value.op>>
         ELSE <<"Expr", stmt.value.type>>
    ELSE IF stmt.kind = "Try" THEN <<"Try">> \o Repeat("ExceptHandler", stmt.handlers)
    ELSE <<stmt.kind>>

\* inspect.cleandoc on a one-line docstring: leading white space goes
RECURSIVE cleandoc(_)
cleandoc(s) == IF s # <<>> /\ Head(s) \in {" ", "\f"} THEN cleandoc(Tail(s)) ELSE s

\* ast.get_docstring(node): the cleaned text of a string literal that is the
\* first statement of the body, else None
get_docstring(tree, n) ==
    LET body == Body(tree, n)
    IN  IF body # <<>> /\ tree[body[1]].kind = "Expr" /\ tree[body[1]].value.type = "Constant"
        THEN PyStr(cleandoc(tree[body[1]].value.s))
        ELSE PyNone

----------------------------------------------------------------------------
(* analyze_code_quality *)

\* line 61: the node types that add one to the complexity
BranchTypes ==
    {"If", "For", "While", "And", "Or", "With", "AsyncFor", "AsyncWith", "ExceptHandler"}

CountBranches(types) == Len(SelectSeq(types, LAMBDA t : t \in BranchTypes))

\* the score over the statements of the function itself, those of the functions
\* defined inside it left to them
complexity_NestedSkipped(tree, n) ==
    LET walk == ast_walk(tree, n)
        inner(i) == \E j \in Range(walk) :
                        j # n /\ tree[j].kind = "FunctionDef" /\ i \in Range(ast_walk(tree, j))
    IN  1 + SumSeq([k \in DOMAIN walk |->
                      IF inner(walk[k]) THEN 0 ELSE CountBranches(NodeTypes(tree[walk[k]]))])

\* lines 59-62: 1, plus one per node of a branch type in ast.walk(node)
complexity(tree, n) ==
    LET walk == ast_walk(tree, n)
    IN  1 + SumSeq([k \in DOMAIN walk |->
                      IF walk[k] = Module THEN 0 ELSE CountBranches(NodeTypes(tree[walk[k]]))])

\* line 53: the nodes the analysis is applied to
IsFunctionDef(tree, n) == n # Module /\ tree[n].kind = "FunctionDef"

\* the threshold off by one: a score of 5 already counts as high
IsHighComplexity_AtLeastFive(c) == c >= 5

\* line 63
IsHighComplexity(c) == c > 5

MissingDocstring(name, line) ==
    [issue |-> "Missing docstring for function", name |-> name, lineno |-> line]
HighComplexity(c, name) ==
    [issue |-> "High cyclomatic complexity", name |-> name, complexity |-> c]

\* lines 54-64: the issues one function adds, in the order they are appended
FunctionIssues(tree, n) ==
    (IF ~Truthy(get_docstring(tree, n)) THEN <<MissingDocstring(tree[n].name, lineno(tree, n))>> ELSE <<>>)
    \o (IF IsHighComplexity(complexity(tree, n))
        THEN <<HighComplexity(complexity(tree, n), tree[n].name)>> ELSE <<>>)

\* lines 52-65: the loop over ast.walk(tree)
RECURSIVE QualityLoop(_, _, _, _)
QualityLoop(tree, nodes, issues, total_complexity) ==
    IF nodes = <<>> THEN [issues |-> issues, total_complexity |-> total_complexity]
    ELSE LET n == Head(nodes)
         IN  IF IsFunctionDef(tree, n)
             THEN QualityLoop(tree, Tail(nodes), issues \o FunctionIssues(tree, n),
                              total_complexity + complexity(tree, n))
             ELSE QualityLoop(tree, Tail(nodes), issues, total_complexity)

\* line 47: len(file_content.splitlines())
line_count(src) == Len(splitlines(SourceText(src)))

NoIssues == PyStr("No major issues found.")
Suggestions ==
    <<"Ensure all functions and classes have docstrings.",
      "Aim for a cyclomatic complexity below 5 for each function.">>

\* the report with its issue list as it is, were it empty: no sentinel
AnalyzeCodeQuality_EmptyList(src) ==
    LET p == ast_parse(src)
    IN  IF p.raised = "SyntaxError"
        THEN [status |-> "error", message |-> [text |-> "Syntax error in file: ", e |-> p.msg]]
        ELSE IF p.raised # "none" THEN [raised |-> p.raised]
        ELSE LET r == QualityLoop(p.tree, ast_walk(p.tree, Module), <<>>, 0)
             IN  [status |-> "analysis_complete",
                  line_count |-> line_count(src),
                  overall_complexity_score |-> r.total_complexity,
                  issues_found |-> PyList(r.issues),
                  suggestions |-> Suggestions]

\* lines 46-76
AnalyzeCodeQuality(src) ==
    LET p == ast_parse(src)
    IN  IF p.raised = "SyntaxError"
        THEN [status |-> "error", message |-> [text |-> "Syntax error in file: ", e |-> p.msg]]
        ELSE IF p.raised # "none" THEN [raised |-> p.raised]
        ELSE LET r == QualityLoop(p.tree, ast_walk(p.tree, Module), <<>>, 0)
             IN  [status |-> "analysis_complete",
                  line_count |-> line_count(src),
                  overall_complexity_score |-> r.total_complexity,
                  issues_found |-> IF r.issues # <<>> THEN PyList(r.issues) ELSE NoIssues,
                  suggestions |-> Suggestions]

analyze_code_quality ==
    /\ call' = "analyze_code_quality"
    /\ result' = AnalyzeCodeQuality(file_content)
    /\ UNCHANGED <<vulnerability_db, file_content, file_path, function_name,
                   dependency_file_content, invocations, githubVars>>

----------------------------------------------------------------------------
(* generate_documentation *)

\* node.args: the declared parameters, split by the way they are declared
arguments(params) ==
    [posonlyargs |-> SelectSeq(params, LAMBDA p : p.kind = "posonly"),
     args |-> SelectSeq(params, LAMBDA p : p.kind = "arg"),
     vararg |-> SelectSeq(params, LAMBDA p : p.kind = "vararg"),
     kwonlyargs |-> SelectSeq(params, LAMBDA p : p.kind = "kwonly"),
     kwarg |-> SelectSeq(params, LAMBDA p : p.kind = "kwarg")]

\* line 98: [a.arg for a in node.args.args]
ArgNames(params) ==
    LET args == arguments(params).args IN [i \in DOMAIN args |-> args[i].arg]

\* lines 94-96: the heading of a class and, when it has one, its docstring
ClassSection(tree, n) ==
    <<[part |-> "class", name |-> tree[n].name]>>
    \o (IF Truthy(get_docstring(tree, n))
        THEN <<[part |-> "class docstring", doc |-> get_docstring(tree, n).value]>>
        ELSE <<>>)

\* lines 98-103: the bullet of a function, then its docstring or the placeholder
FunctionSection(tree, n) ==
    <<[part |-> "def", name |-> tree[n].name, args |-> ArgNames(tree[n].params)]>>
    \o (IF Truthy(get_docstring(tree, n))
        THEN <<[part |-> "docstring", doc |-> get_docstring(tree, n).value]>>
        ELSE <<[part |-> "purpose", todo |-> "[TODO: Describe the function's purpose.]"]>>)

\* lines 92-103: the loop over ast.walk(tree)
RECURSIVE DocLoop(_, _, _)
DocLoop(tree, nodes, doc_body) ==
    IF nodes = <<>> THEN doc_body
    ELSE LET n == Head(nodes)
         IN  IF n # Module /\ tree[n].kind = "ClassDef"
             THEN DocLoop(tree, Tail(nodes), doc_body \o ClassSection(tree, n))
             ELSE IF IsFunctionDef(tree, n)
             THEN DocLoop(tree, Tail(nodes), doc_body \o FunctionSection(tree, n))
             ELSE DocLoop(tree, Tail(nodes), doc_body)

\* line 105
ParseErrorBody(e) ==
    <<[part |-> "error", text |-> "Could not parse file due to syntax error: ", e |-> e]>>

\* lines 108-118: title, summary, code structure, note
Document(path, src, doc_body) ==
    <<[part |-> "title", file_path |-> path],
      [part |-> "summary", line_count |-> line_count(src)],
      [part |-> "code structure"]>>
    \o doc_body
    \o <<[part |-> "note"]>>

GenerateDocumentation(src, path) ==
    LET p == ast_parse(src)
    IN  IF p.raised \notin {"none", "SyntaxError"} THEN [raised |-> p.raised]
        ELSE [status |-> "documentation_generated",
              documentation |->
                  Document(path, src,
                           IF p.raised = "SyntaxError" THEN ParseErrorBody(p.msg)
                           ELSE DocLoop(p.tree, ast_walk(p.tree, Module), <<>>))]

generate_documentation ==
    /\ call' = "generate_documentation"
    /\ result' = GenerateDocumentation(file_content, file_path)
    /\ UNCHANGED <<vulnerability_db, file_content, file_path, function_name,
                   dependency_file_content, invocations, githubVars>>

----------------------------------------------------------------------------
(* create_qa_tests *)

\* lines 175-178: the first FunctionDef of that name in ast.walk(tree), or None
FindFunction(tree, name) ==
    LET walk == ast_walk(tree, Module)
        hits == SelectSeq(walk, LAMBDA n : IsFunctionDef(tree, n) /\ tree[n].name = name)
    IN  IF hits = <<>> THEN Module ELSE hits[1]

\* ast.unparse(annotation): a name as written, a string annotation in single quotes
ast_unparse(annotation) ==
    IF annotation.type = "Name" THEN <<annotation.id>> ELSE <<"'", annotation.s, "'">>

\* lines 185-187
ArgStr(a) ==
    IF a.annotation.type # "None" THEN <<a.arg, ": ">> \o ast_unparse(a.annotation)
    ELSE <<a.arg>>

\* lines 183-188
ArgsWithTypes(params) ==
    LET args == arguments(params).args IN [i \in DOMAIN args |-> ArgStr(args[i])]

\* ', '.join(parts)
RECURSIVE Join(_)
Join(parts) ==
    IF parts = <<>> THEN <<>>
    ELSE IF Len(parts) = 1 THEN parts[1]
    ELSE parts[1] \o <<", ">> \o Join(Tail(parts))

\* str.capitalize() on the function names of the model
capitalize(name) ==
    CASE name = "add" -> "Add"
      [] name = "Add" -> "Add"
      [] name = "sub" -> "Sub"
      [] OTHER -> name

\* lines 194-238: the parts of the template that depend on the arguments
TestCode(name, args_with_types) ==
    [import |-> name,
     class |-> <<"Test", capitalize(name)>>,
     nominal_case_arguments |-> Join(args_with_types),
     edge_cases |-> "pass # TODO: Add edge case tests",
     invalid_input |-> "pass # TODO: Add invalid input tests"]

CreateQaTests(src, name) ==
    LET p == ast_parse(src)
    IN  IF p.raised = "SyntaxError"
        THEN [status |-> "error", message |-> [text |-> "Syntax error in file: ", e |-> p.msg]]
        ELSE IF p.raised # "none" THEN [raised |-> p.raised]
        ELSE LET func_node == FindFunction(p.tree, name)
             IN  IF func_node = Module
                 THEN [status |-> "error",
                       message |-> [text |-> "Function not found in the file.", name |-> name]]
                 ELSE [status |-> "tests_generated",
                       test_suite_code |->
                           TestCode(name, ArgsWithTypes(p.tree[func_node].params)),
                       function_tested |-> name]

create_qa_tests ==
    /\ call' = "create_qa_tests"
    /\ result' = CreateQaTests(file_content, function_name)
    /\ UNCHANGED <<vulnerability_db, file_content, file_path, function_name,
                   dependency_file_content, invocations, githubVars>>

----------------------------------------------------------------------------
(* scan_for_security_issues *)

LowerCase ==
    <<"a","b","c","d","e","f","g","h","i","j","k","l","m",
      "n","o","p","q","r","s","t","u","v","w","x","y","z">>
UpperCase ==
    <<"A","B","C","D","E","F","G","H","I","J","K","L","M",
      "N","O","P","Q","R","S","T","U","V","W","X","Y","Z">>
Digits == {"0","1","2","3","4","5","6","7","8","9"}

\* the character class [a-zA-Z0-9_-] of line 141
NameChars == Range(LowerCase) \cup Range(UpperCase) \cup Digits \cup {"_", "-"}

Whitespace == {" ", "\t"}

RECURSIVE lstrip(_)
lstrip(s) == IF s # <<>> /\ Head(s) \in Whitespace THEN lstrip(Tail(s)) ELSE s

RECURSIVE rstrip(_)
rstrip(s) ==
    IF s # <<>> /\ s[Len(s)] \in Whitespace THEN rstrip(SubSeq(s, 1, Len(s) - 1)) ELSE s

\* str.strip()
strip(s) == rstrip(lstrip(s))

\* str.lower()
LowerChar(c) ==
    IF \E i \in DOMAIN UpperCase : UpperCase[i] = c
    THEN LowerCase[CHOOSE i \in DOMAIN UpperCase : UpperCase[i] = c]
    ELSE c

lower(s) == [i \in DOMAIN s |-> LowerChar(s[i])]

\* re.match(r'([a-zA-Z0-9_-]+)', dep): group 1, the longest run of name
\* characters that starts the line; the empty run stands for no match
RECURSIVE LeadingRun(_)
LeadingRun(s) ==
    IF s # <<>> /\ Head(s) \in NameChars THEN <<Head(s)>> \o LeadingRun(Tail(s)) ELSE <<>>

re_match(dep) == LeadingRun(dep)

\* the name looked up as written, its capitals kept
PackageName_CaseKept(match) == match

\* line 145
PackageName(match) == lower(match)

\* the finding holding the name of the package alone, its version specifier cut
ScanLine_NameOnly(db, line) ==
    LET dep == strip(line)
        match == re_match(dep)
    IN  IF dep = <<>> \/ Head(dep) = "#" THEN <<>>
        ELSE IF match = <<>> THEN <<>>
        ELSE IF PackageName(match) \in DOMAIN db
        THEN <<[dependency |-> match, issue_details |-> db[PackageName(match)]]>>
        ELSE <<>>

\* lines 136-151: what one line of the file adds to vulnerabilities_found
ScanLine(db, line) ==
    LET dep == strip(line)
        match == re_match(dep)
    IN  IF dep = <<>> \/ Head(dep) = "#" THEN <<>>
        ELSE IF match = <<>> THEN <<>>
        ELSE IF PackageName(match) \in DOMAIN db
        THEN <<[dependency |-> dep, issue_details |-> db[PackageName(match)]]>>
        ELSE <<>>

\* lines 135-151: the loop over the lines
RECURSIVE ScanLoop(_, _, _)
ScanLoop(db, dependencies, vulnerabilities_found) ==
    IF dependencies = <<>> THEN vulnerabilities_found
    ELSE ScanLoop(db, Tail(dependencies),
                  vulnerabilities_found \o ScanLine(db, Head(dependencies)))

NoVulnerabilities == PyStr("No known vulnerabilities found in the provided dependencies.")

ScanForSecurityIssues(db, text) ==
    LET vulnerabilities_found == ScanLoop(db, splitlines(text), <<>>)
    IN  [status |-> "scan_complete",
         vulnerabilities |-> IF vulnerabilities_found # <<>> THEN PyList(vulnerabilities_found)
                             ELSE NoVulnerabilities,
         recommendation |->
             "Always keep dependencies up to date and review their security advisories."]

scan_for_security_issues ==
    /\ call' = "scan_for_security_issues"
    /\ result' = ScanForSecurityIssues(vulnerability_db, dependency_file_content)
    /\ UNCHANGED <<vulnerability_db, file_content, file_path, function_name,
                   dependency_file_content, invocations, githubVars>>

\* the entry of the table a finding holds: line 150 puts the dict of the table
\* itself into the finding, not a copy of it
TableKey(finding) == PackageName(re_match(finding.dependency))

\* the values a caller writes into the issue details of a finding
Severities == {"None", "Critical"}

\* a caller of scan_for_security_issues assigns to the "severity" of the
\* issue_details of a finding it was given: the write lands in the dict of the
\* table, and shows in every finding that holds that dict
caller_updates_finding ==
    /\ call = "scan_for_security_issues"
    /\ result.vulnerabilities.type = "list"
    /\ \E k \in DOMAIN result.vulnerabilities.value, severity \in Severities :
           LET findings == result.vulnerabilities.value
               key == TableKey(findings[k])
               entry == [vulnerability_db[key] EXCEPT !.severity = severity]
           IN  /\ vulnerability_db' = [vulnerability_db EXCEPT ![key] = entry]
               /\ result' = [result EXCEPT !.vulnerabilities.value =
                                 [j \in DOMAIN findings |->
                                     IF TableKey(findings[j]) = key
                                     THEN [findings[j] EXCEPT !.issue_details = entry]
                                     ELSE findings[j]]]
    /\ UNCHANGED <<file_content, file_path, function_name, dependency_file_content, call,
                   invocations, githubVars>>

----------------------------------------------------------------------------
(* State after construction *)

VulnerabilityDb ==
    (<<"o","u","t","d","a","t","e","d","-","p","a","c","k","a","g","e">> :>
        [version |-> "1.2.3", severity |-> "High", cve |-> "CVE-2024-12345",
         summary |-> "Remote Code Execution"])
    @@ (<<"i","n","s","e","c","u","r","e","-","l","i","b">> :>
        [version |-> "2.1.0", severity |-> "Medium", cve |-> "CVE-2024-67890",
         summary |-> "Cross-Site Scripting (XSS)"])
    @@ (<<"d","j","a","n","g","o">> :>
        [version |-> "3.2.1", severity |-> "Low", cve |-> "CVE-2024-11111",
         summary |-> "Denial of Service possibility"])

NoCall == [returned |-> "nothing"]

\* app/agent.py is not loaded: no token, no tool has run, the graph is at its entry
NoGithub ==
    /\ GITHUB_TOKEN = PyNone
    /\ github_integration_instance = PyNone
    /\ repositories = <<>>
    /\ tool_calls = <<>>
    /\ graph_node = "agent"
    /\ messages = <<>>

\* the statements analyze_code_quality and generate_documentation are run on
QualityVocabulary ==
    {DefStmt(k, n, NoParams) : k \in DefKinds, n \in {"f", "g"}}
    \cup {ClassStmt("C")}
    \cup {BlockStmt(k) : k \in BlockKinds}
    \cup {TryStmt(h) : h \in 0..MaxHandlers}
    \cup {ExprStmt(NameExpr), ExprStmt(StrExpr(<<>>)), ExprStmt(StrExpr(<<" ">>)),
          ExprStmt(StrExpr(<<" ", "x">>)), ExprStmt(StrExpr(<<"a", "\f", "b">>))}
    \cup {ExprStmt(BoolOpExpr(op, n)) : op \in {"And", "Or"}, n \in 2..MaxValues}
    \cup {InvalidLine, SurrogateLine, DeepLine}

InitQuality ==
    /\ vulnerability_db = VulnerabilityDb
    /\ file_content \in Files(QualityVocabulary, MaxLines)
    /\ file_path = "app.py"
    /\ function_name = "add"
    /\ dependency_file_content = <<>>
    /\ call = "none"
    /\ result = NoCall
    /\ invocations = <<>>
    /\ NoGithub

NextQuality == analyze_code_quality

SpecQuality == InitQuality /\ [][NextQuality]_vars

\* sources one statement longer, over fewer statements: functions inside
\* functions and classes, with branches inside them
NestedVocabulary ==
    {DefStmt("FunctionDef", n, NoParams) : n \in {"f", "g"}}
    \cup {ClassStmt("C"), BlockStmt("If"), TryStmt(MaxHandlers), ExprStmt(StrExpr(<<"x">>))}

InitNested ==
    /\ vulnerability_db = VulnerabilityDb
    /\ file_content \in {SourceFile(b, TRUE) : b \in Sources(NestedVocabulary, MaxLines + 1)}
    /\ file_path = "app.py"
    /\ function_name = "add"
    /\ dependency_file_content = <<>>
    /\ call = "none"
    /\ result = NoCall
    /\ invocations = <<>>
    /\ NoGithub

SpecNested == InitNested /\ [][NextQuality]_vars

NextDoc == generate_documentation

\* sources one statement longer with two classes and their methods
ClassVocabulary ==
    {ClassStmt(n) : n \in {"C", "D"}}
    \cup {DefStmt("FunctionDef", n, NoParams) : n \in {"f", "g"}}
    \cup {ExprStmt(StrExpr(<<"x">>))}

InitClasses ==
    /\ vulnerability_db = VulnerabilityDb
    /\ file_content \in {SourceFile(b, TRUE) : b \in Sources(ClassVocabulary, MaxLines + 1)}
    /\ file_path = "app.py"
    /\ function_name = "add"
    /\ dependency_file_content = <<>>
    /\ call = "none"
    /\ result = NoCall
    /\ invocations = <<>>
    /\ NoGithub

SpecClasses == InitClasses /\ [][NextDoc]_vars

SpecDoc == InitQuality /\ [][NextDoc]_vars

\* the parameters and the statements create_qa_tests is run on
Param(arg, annotation, kind) == [arg |-> arg, annotation |-> annotation, kind |-> kind]
IntName == [type |-> "Name", id |-> "int"]
IntString == [type |-> "Constant", s |-> "int"]

ParamLists ==
    {<<>>,
     <<Param("a", IntName, "arg"), Param("b", IntName, "arg")>>,
     <<Param("b", PyNone, "arg"), Param("a", IntString, "arg")>>,
     <<Param("a", PyNone, "posonly"), Param("b", IntName, "arg")>>,
     <<Param("a", PyNone, "arg"), Param("rest", PyNone, "vararg"),
       Param("key", IntName, "kwonly"), Param("kw", PyNone, "kwarg")>>}

FunctionNames == {"add", "Add", "sub"}

TestsVocabulary ==
    {DefStmt(k, n, ps) : k \in DefKinds, n \in FunctionNames, ps \in ParamLists}
    \cup {ClassStmt("C"), BlockStmt("If"), ExprStmt(NameExpr)}
    \cup {InvalidLine, SurrogateLine, DeepLine}

InitTests ==
    /\ vulnerability_db = VulnerabilityDb
    /\ file_content \in Files(TestsVocabulary, MaxLines)
    /\ file_path = "app.py"
    /\ function_name \in FunctionNames
    /\ dependency_file_content = <<>>
    /\ call = "none"
    /\ result = NoCall
    /\ invocations = <<>>
    /\ NoGithub

NextTests == create_qa_tests

SpecTests == InitTests /\ [][NextTests]_vars

\* sources one statement longer in which functions of one name, told apart by
\* their parameters, stand at top level and inside classes and functions
SameNameVocabulary ==
    {DefStmt("FunctionDef", "add", ps)
        : ps \in {<<Param("a", PyNone, "arg")>>, <<Param("b", IntName, "arg")>>}}
    \cup {DefStmt("FunctionDef", "sub", NoParams), ClassStmt("C"), ExprStmt(NameExpr)}

InitSameName ==
    /\ vulnerability_db = VulnerabilityDb
    /\ file_content \in {SourceFile(b, TRUE) : b \in Sources(SameNameVocabulary, MaxLines + 1)}
    /\ file_path = "app.py"
    /\ function_name \in {"add", "sub"}
    /\ dependency_file_content = <<>>
    /\ call = "none"
    /\ result = NoCall
    /\ invocations = <<>>
    /\ NoGithub

SpecSameName == InitSameName /\ [][NextTests]_vars

\* the dependency files scan_for_security_issues is run on: at most MaxDeps
\* lines, each a lead-in, a package name and a version specifier, the last
\* line with or without its line break
MaxDeps == 2

LeadIns == {<<>>, <<" ">>, <<"#">>}
PackageNames ==
    {<<>>,
     <<"d","j","a","n","g","o">>,
     <<"D","j","a","n","g","O">>,
     <<"d","j","a","n","g","o","-","x">>,
     <<"i","n","s","e","c","u","r","e","-","l","i","b">>}
Specifiers == {<<>>, <<"=","=","3",".","2",".","1"," ">>}

DepLines == {l \o p \o s : l \in LeadIns, p \in PackageNames, s \in Specifiers}

DependencyFiles ==
    UNION {{JoinLines(ls) \o end : ls \in [1..k -> DepLines], end \in {<<>>, <<"\n">>}}
           : k \in 0..MaxDeps}

InitScan ==
    /\ vulnerability_db = VulnerabilityDb
    /\ file_content = EmptyFile
    /\ file_path = "app.py"
    /\ function_name = "add"
    /\ dependency_file_content \in DependencyFiles
    /\ call = "none"
    /\ result = NoCall
    /\ invocations = <<>>
    /\ NoGithub

NextScan == scan_for_security_issues

SpecScan == InitScan /\ [][NextScan]_vars

\* scans, and a caller that writes to the findings it is given
NextCaller ==
    \/ scan_for_security_issues
    \/ caller_updates_finding

SpecCaller == InitScan /\ [][NextCaller]_vars

\* every operation, on every input above
Init == InitQuality \/ InitTests \/ InitScan

Next ==
    \/ analyze_code_quality
    \/ generate_documentation
    \/ create_qa_tests
    \/ scan_for_security_issues

Spec == Init /\ [][Next]_vars

----------------------------------------------------------------------------
(* Calls that run side by side on one agent.  A call runs in three kinds of
   step: it is made and runs up to its loop, it runs one iteration of its
   loop, it returns.  Its arguments and locals are its own; the agent is
   shared. *)

Arguments(content, path, name, deps) ==
    [file_content |-> content, file_path |-> path, function_name |-> name,
     dependency_file_content |-> deps]

\* the locals of a call: what is left of ast.walk(tree) or dependencies, the
\* list or text built so far (issues, doc_body, vulnerabilities_found),
\* total_complexity, func_node
Locals(todo, acc, total_complexity, func_node) ==
    [todo |-> todo, acc |-> acc, total_complexity |-> total_complexity,
     func_node |-> func_node]

NoLocals == Locals(<<>>, <<>>, 0, Module)

Idle == [op |-> "none", args |-> Arguments(EmptyFile, "", "", <<>>), pc |-> "idle",
         locals |-> NoLocals, overlapped |-> FALSE, result |-> NoCall]

InFlight(invs) == {t \in DOMAIN invs : invs[t].pc = "loop"}

\* lines 46-51, 89-91, 132-133, 172-174: the call runs up to its loop, or
\* returns or raises when the source does not parse
Enter(op, args) ==
    LET inv == [Idle EXCEPT !.op = op, !.args = args]
        p == ast_parse(args.file_content)
    IN  IF op = "scan_for_security_issues"
        THEN [inv EXCEPT !.pc = "loop",
                         !.locals = Locals(splitlines(args.dependency_file_content),
                                           <<>>, 0, Module)]
        ELSE IF p.raised = "none"
        THEN [inv EXCEPT !.pc = "loop",
                         !.locals = Locals(ast_walk(p.tree, Module), <<>>, 0, Module)]
        ELSE IF p.raised # "SyntaxError"
        THEN [inv EXCEPT !.pc = "returned", !.result = [raised |-> p.raised]]
        ELSE IF op = "generate_documentation"
        THEN [inv EXCEPT !.pc = "loop",
                         !.locals = Locals(<<>>, ParseErrorBody(p.msg), 0, Module)]
        ELSE [inv EXCEPT !.pc = "returned",
                         !.result = [status |-> "error",
                                     message |-> [text |-> "Syntax error in file: ",
                                                  e |-> p.msg]]]

\* the list of the first call, as if the agent kept one list for all its calls
Accumulated_OfFirstCall(invs, t) == invs[1].locals.acc

\* lines 46, 89, 132: the list a call appends to is the one it created
Accumulated(invs, t) == invs[t].locals.acc

\* lines 53-65, 93-103, 136-151, 176-178: one iteration of the loop of call t
LoopBody(invs, t, db) ==
    LET inv == invs[t]
        l == inv.locals
        n == Head(l.todo)
        acc == Accumulated(invs, t)
        tree == ast_parse(inv.args.file_content).tree
    IN  CASE inv.op = "analyze_code_quality" ->
                 IF IsFunctionDef(tree, n)
                 THEN Locals(Tail(l.todo), acc \o FunctionIssues(tree, n),
                             l.total_complexity + complexity(tree, n), l.func_node)
                 ELSE Locals(Tail(l.todo), acc, l.total_complexity, l.func_node)
          [] inv.op = "generate_documentation" ->
                 IF n # Module /\ tree[n].kind = "ClassDef"
                 THEN Locals(Tail(l.todo), acc \o ClassSection(tree, n), 0, l.func_node)
                 ELSE IF IsFunctionDef(tree, n)
                 THEN Locals(Tail(l.todo), acc \o FunctionSection(tree, n), 0, l.func_node)
                 ELSE Locals(Tail(l.todo), acc, 0, l.func_node)
          [] inv.op = "create_qa_tests" ->
                 IF IsFunctionDef(tree, n) /\ tree[n].name = inv.args.function_name
                 THEN Locals(<<>>, l.acc, 0, n)
                 ELSE Locals(Tail(l.todo), l.acc, 0, l.func_node)
          [] inv.op = "scan_for_security_issues" ->
                 Locals(Tail(l.todo), acc \o ScanLine(db, n), 0, l.func_node)

\* the table without the entry the line names, as if the lookup took it out
TableAfterLookup_Popped(db, line) ==
    LET package_name == PackageName(re_match(strip(line)))
    IN  [k \in DOMAIN db \ {package_name} |-> db[k]]

\* lines 147-150: `in` and the subscript read the table and leave it as it is
TableAfterLookup(db, line) == db

\* lines 70-76, 108-119, 153-157, 180-239: the value call t returns
ReturnValue(inv) ==
    LET l == inv.locals
        tree == ast_parse(inv.args.file_content).tree
    IN  CASE inv.op = "analyze_code_quality" ->
                 [status |-> "analysis_complete",
                  line_count |-> line_count(inv.args.file_content),
                  overall_complexity_score |-> l.total_complexity,
                  issues_found |-> IF l.acc # <<>> THEN PyList(l.acc) ELSE NoIssues,
                  suggestions |-> Suggestions]
          [] inv.op = "generate_documentation" ->
                 [status |-> "documentation_generated",
                  documentation |->
                      Document(inv.args.file_path, inv.args.file_content, l.acc)]
          [] inv.op = "create_qa_tests" ->
                 IF l.func_node = Module
                 THEN [status |-> "error",
                       message |-> [text |-> "Function not found in the file.",
                                    name |-> inv.args.function_name]]
                 ELSE [status |-> "tests_generated",
                       test_suite_code |->
                           TestCode(inv.args.function_name,
                                    ArgsWithTypes(tree[l.func_node].params)),
                       function_tested |-> inv.args.function_name]
          [] inv.op = "scan_for_security_issues" ->
                 [status |-> "scan_complete",
                  vulnerabilities |-> IF l.acc # <<>> THEN PyList(l.acc)
                                      ELSE NoVulnerabilities,
                  recommendation |->
                      "Always keep dependencies up to date and review their security advisories."]

\* the sources, manifests and calls of the calls that run side by side
AddSource == SourceFile(<<DefStmt("FunctionDef", "add",
                                  <<Param("a", IntName, "arg"), Param("b", PyNone, "arg")>>)>>,
                        TRUE)
BrokenSource == SourceFile(<<InvalidLine>>, TRUE)
DjangoTwice == <<"d","j","a","n","g","o","\n","D","j","a","n","g","O","=","=","3">>
InsecureLib == <<"i","n","s","e","c","u","r","e","-","l","i","b">>

Calls ==
    {[op |-> "analyze_code_quality", args |-> Arguments(src, "", "", <<>>)]
        : src \in {AddSource, BrokenSource}}
    \cup {[op |-> "generate_documentation", args |-> Arguments(AddSource, "app.py", "", <<>>)],
          [op |-> "create_qa_tests", args |-> Arguments(AddSource, "", "add", <<>>)]}
    \cup {[op |-> "scan_for_security_issues", args |-> Arguments(EmptyFile, "", "", deps)]
        : deps \in {DjangoTwice, InsecureLib}}

\* a caller calls an operation: the call runs up to its loop
invoke(t) ==
    /\ invocations[t].pc = "idle"
    /\ \E c \in Calls :
           invocations' =
               [u \in DOMAIN invocations |->
                   IF u = t
                   THEN [Enter(c.op, c.args) EXCEPT !.overlapped = InFlight(invocations) # {}]
                   ELSE IF u \in InFlight(invocations)
                   THEN [invocations[u] EXCEPT !.overlapped = TRUE]
                   ELSE invocations[u]]
    /\ UNCHANGED <<vulnerability_db, file_content, file_path, function_name,
                   dependency_file_content, call, result, githubVars>>

\* call t runs one iteration of its loop
iterate(t) ==
    /\ invocations[t].pc = "loop"
    /\ invocations[t].locals.todo # <<>>
    /\ invocations' = [invocations EXCEPT ![t].locals =
                           LoopBody(invocations, t, vulnerability_db)]
    /\ vulnerability_db' =
           IF invocations[t].op = "scan_for_security_issues"
           THEN TableAfterLookup(vulnerability_db, Head(invocations[t].locals.todo))
           ELSE vulnerability_db
    /\ UNCHANGED <<file_content, file_path, function_name, dependency_file_content,
                   call, result, githubVars>>

\* call t returns
return(t) ==
    /\ invocations[t].pc = "loop"
    /\ invocations[t].locals.todo = <<>>
    /\ invocations' = [invocations EXCEPT ![t].pc = "returned",
                                          ![t].result = ReturnValue(invocations[t])]
    /\ UNCHANGED <<vulnerability_db, file_content, file_path, function_name,
                   dependency_file_content, call, result, githubVars>>

InitConcurrent ==
    /\ vulnerability_db = VulnerabilityDb
    /\ file_content = EmptyFile
    /\ file_path = "app.py"
    /\ function_name = "add"
    /\ dependency_file_content = <<>>
    /\ call = "none"
    /\ result = NoCall
    /\ invocations = [t \in 1..MaxInvocations |-> Idle]
    /\ NoGithub

NextConcurrent ==
    \E t \in DOMAIN invocations :
        \/ invoke(t)
        \/ iterate(t)
        \/ return(t)

SpecConcurrent == InitConcurrent /\ [][NextConcurrent]_vars

----------------------------------------------------------------------------
(* Properties *)

Returned == "status" \in DOMAIN result
Raised == "raised" \in DOMAIN result

Parsed == ast_parse(file_content)
ParseFails == Parsed.raised # "none"

Analyzed == call = "analyze_code_quality" /\ Returned /\ result.status = "analysis_complete"

\* the issue list of a report (empty when the report holds the sentinel)
Issues == IF result.issues_found.type = "list" THEN result.issues_found.value ELSE <<>>

FunctionDefs(tree) == {n \in DOMAIN tree : tree[n].kind = "FunctionDef"}
FunctionDefinitions(tree) == {n \in DOMAIN tree : tree[n].kind \in DefKinds}

\* the statements of the subtree of n, n included
Subtree(tree, n) ==
    {n} \cup {i \in (n + 1)..Len(tree) : \A k \in (n + 1)..i : tree[k].indent > tree[n].indent}

RECURSIVE SumOver(_, _)
SumOver(S, f) ==
    IF S = {} THEN 0 ELSE LET x == CHOOSE x \in S : TRUE IN f[x] + SumOver(S \ {x}, f)

\* the branching constructs one statement holds: itself when it is an if, a
\* loop or a with-block, its except clauses, and each and/or operator of its
\* expression (n operands are joined by n - 1 operators)
BranchingConstructs(stmt) ==
    IF stmt.kind \in BlockKinds THEN 1
    ELSE IF stmt.kind = "Try" THEN stmt.handlers
    ELSE IF stmt.kind = "Expr" /\ stmt.value.type = "BoolOp" THEN stmt.value.nvalues - 1
    ELSE 0

\* k: the branching constructs anywhere in the subtree of function n
NumBranching(tree, n) ==
    SumOver(Subtree(tree, n), [i \in DOMAIN tree |-> BranchingConstructs(tree[i])])

\* C1: when parsing of the source fails, analyze_code_quality and create_qa_tests
\* return exactly a status "error" and a message holding the parser's message
\* (no line count, issues, score or skeleton).
C1_ParseFailureReturnsError ==
    (call \in {"analyze_code_quality", "create_qa_tests"} /\ ParseFails)
        => /\ DOMAIN result = {"status", "message"}
           /\ result.status = "error"
           /\ result.message.e = Parsed.msg

\* C2: when parsing of the source fails, generate_documentation returns status
\* "documentation_generated" and a document whose code-structure body is the
\* parse-error message alone, between the summary and the note.
C2_ParseFailureDegradedSuccess ==
    (call = "generate_documentation" /\ ParseFails)
        => /\ Returned
           /\ result.status = "documentation_generated"
           /\ Len(result.documentation) = 5
           /\ result.documentation[2].part = "summary"
           /\ result.documentation[3].part = "code structure"
           /\ result.documentation[4] = ParseErrorBody(Parsed.msg)[1]
           /\ result.documentation[5].part = "note"

\* C3: the complexity score of every analysed function is 1 + k, k the number of
\* branching constructs in its subtree (each and/or operator counted), so the
\* overall score is the sum of these.
C3_ComplexityIsOnePlusK ==
    Analyzed =>
        LET tree == Parsed.tree
        IN  /\ \A n \in FunctionDefs(tree) : complexity(tree, n) = 1 + NumBranching(tree, n)
            /\ result.overall_complexity_score =
                   SumOver(FunctionDefs(tree), [n \in DOMAIN tree |-> 1 + NumBranching(tree, n)])

StartsWithStringLiteral(tree, n) ==
    /\ n < Len(tree)
    /\ tree[n + 1].indent > tree[n].indent
    /\ tree[n + 1].kind = "Expr"
    /\ tree[n + 1].value.type = "Constant"

\* C5: an analysed function whose first statement is a string literal (the empty
\* string included) gets no "Missing docstring" issue, and every other one gets
\* exactly one, with its name and line number.
C5_MissingDocstringIffNoStringLiteral ==
    Analyzed =>
        LET tree == Parsed.tree
            missing(n) == SelectSeq(Issues, LAMBDA i :
                              i = MissingDocstring(tree[n].name, lineno(tree, n)))
        IN  \A n \in FunctionDefs(tree) :
                Len(missing(n)) = IF StartsWithStringLiteral(tree, n) THEN 0 ELSE 1

\* C6: the docstring check and the complexity computation are applied to every
\* function definition of the tree, def and async def alike: each one without a
\* docstring has its issue, and the overall score sums the scores of them all.
C6_EveryFunctionDefinitionAnalyzed ==
    Analyzed =>
        LET tree == Parsed.tree
        IN  /\ \A n \in FunctionDefinitions(tree) :
                   ~Truthy(get_docstring(tree, n))
                       => \E k \in DOMAIN Issues :
                              Issues[k] = MissingDocstring(tree[n].name, lineno(tree, n))
            /\ result.overall_complexity_score =
                   SumOver(FunctionDefinitions(tree),
                           [n \in DOMAIN tree |-> complexity(tree, n)])

Scanned == call = "scan_for_security_issues" /\ Returned

\* the findings of a scan report (none when the report holds the sentinel)
Findings == IF result.vulnerabilities.type = "list" THEN result.vulnerabilities.value ELSE <<>>

\* the lines of a text, each named by the position of its first character: one
\* starts at position 1 and after every line break, unless the text ends there
LineStarts(text) ==
    {p \in 1..Len(text) : p = 1 \/ text[p - 1] = "\n"}
LineEnd(text, p) ==
    IF \E q \in p..Len(text) : text[q] = "\n"
    THEN (CHOOSE q \in p..Len(text) : text[q] = "\n" /\ \A r \in p..(q - 1) : text[r] # "\n") - 1
    ELSE Len(text)

\* key is the text run in lower case
IsLowerCaseOf(key, run) ==
    /\ Len(key) = Len(run)
    /\ \A i \in DOMAIN run :
           \/ key[i] = run[i] /\ run[i] \notin Range(UpperCase)
           \/ \E j \in DOMAIN UpperCase : run[i] = UpperCase[j] /\ key[i] = LowerCase[j]

\* the finding the line starting at p must give, if any: the line trimmed is
\* a..b, the run of name characters that starts it is a..c, and the run names key
ExpectedFindings(db, text, p) ==
    LET to == LineEnd(text, p)
        inked == {i \in p..to : text[i] \notin Whitespace}
        a == CHOOSE i \in inked : \A j \in inked : i <= j
        b == CHOOSE i \in inked : \A j \in inked : j <= i
        runs == {c \in a..b : /\ \A i \in a..c : text[i] \in NameChars
                              /\ c = b \/ text[c + 1] \notin NameChars}
    IN  IF inked = {} \/ text[a] = "#" THEN {}
        ELSE {[dependency |-> SubSeq(text, a, b), issue_details |-> db[key]] :
                 <<c, key>> \in {x \in runs \X (DOMAIN db) :
                                    IsLowerCaseOf(x[2], SubSeq(text, a, x[1]))}}

\* C7: a line of the dependency file gives a finding exactly when, trimmed, it is
\* not empty, does not start with '#', and starts with a run of letters, digits,
\* '-' and '_' that in lower case is a key of the vulnerability table; the
\* finding carries that table entry.  The report holds the findings of these
\* lines, one each, and every other line gives nothing and no error.
C7_FindingIffLineNamesTableKey ==
    Scanned =>
        LET text == dependency_file_content
            hits == {p \in LineStarts(text) : ExpectedFindings(vulnerability_db, text, p) # {}}
            nth(k) == CHOOSE p \in hits : Cardinality({q \in hits : q < p}) = k - 1
        IN  /\ result.status = "scan_complete"
            /\ Len(Findings) = Cardinality(hits)
            /\ \A k \in DOMAIN Findings :
                   ExpectedFindings(vulnerability_db, text, nth(k)) = {Findings[k]}

\* a file of two lines was scanned: one names a table key in capitals and gives
\* the finding, the other names no key and gives none
C7_Witness ==
    /\ Scanned
    /\ Cardinality(LineStarts(dependency_file_content)) = 2
    /\ Len(Findings) = 1
    /\ \E i \in DOMAIN Findings[1].dependency :
           Findings[1].dependency[i] \in Range(UpperCase)

TestsRun == call = "create_qa_tests" /\ Returned

\* C8: on a source that parses, create_qa_tests returns "tests_generated" with a
\* skeleton and the requested name exactly when the tree holds a function
\* definition of that name (case-sensitive); otherwise "error", the message naming
\* the function, and no skeleton.
C8_FoundIffFunctionDefinitionExists ==
    (call = "create_qa_tests" /\ ~ParseFails) =>
        /\ Returned
        /\ IF \E n \in FunctionDefinitions(Parsed.tree) : Parsed.tree[n].name = function_name
           THEN /\ result.status = "tests_generated"
                /\ DOMAIN result = {"status", "test_suite_code", "function_tested"}
                /\ result.function_tested = function_name
           ELSE /\ result.status = "error"
                /\ DOMAIN result = {"status", "message"}
                /\ result.message = [text |-> "Function not found in the file.",
                                     name |-> function_name]

\* a declared parameter as `name` or `name: declared_type`
Rendered(p) ==
    IF p.annotation.type = "None" THEN <<p.arg>>
    ELSE <<p.arg, ": ">> \o ast_unparse(p.annotation)

\* C9: the parameter list in the nominal-case section lists all the declared
\* parameters of the target function, in declaration order, each as `name` or
\* `name: declared_type`, joined by ", ".
C9_ArgumentsListAllParameters ==
    (TestsRun /\ result.status = "tests_generated") =>
        LET params == Parsed.tree[FindFunction(Parsed.tree, function_name)].params
        IN  result.test_suite_code.nominal_case_arguments =
                Join([i \in DOMAIN params |-> Rendered(params[i])])

\* C10: none of the four operations raises, whatever the input: every failure of
\* the parser becomes a status or message of the returned structure.
C10_NeverRaises == ~Raised

\* the lines of a text separated by newlines, a newline at the end opening no
\* further line: one per newline, and one more for an unterminated last line
NewlineSeparatedLines(text) ==
    Cardinality({i \in DOMAIN text : text[i] = "\n"})
    + (IF text # <<>> /\ text[Len(text)] # "\n" THEN 1 ELSE 0)

\* C14: the line_count of analyze_code_quality, and the line count in the summary
\* of generate_documentation, is the number of newline-separated lines of the
\* input, a trailing newline adding no line (n lines give n with or without the
\* final newline, the empty text gives 0).
C14_LineCountIsNewlineSeparatedLines ==
    /\ Analyzed => result.line_count = NewlineSeparatedLines(SourceText(file_content))
    /\ (call = "generate_documentation" /\ Returned)
           => result.documentation[2].line_count
                  = NewlineSeparatedLines(SourceText(file_content))

\* C15: on the empty source text analyze_code_quality returns a report that is
\* no error: status "analysis_complete", line_count 0, overall score 0, the "no
\* issues" sentinel in place of the issue list, and the two fixed suggestions.
C15_EmptySourceGivesEmptyReport ==
    (call = "analyze_code_quality" /\ SourceText(file_content) = <<>>)
        => result = [status |-> "analysis_complete",
                     line_count |-> 0,
                     overall_complexity_score |-> 0,
                     issues_found |-> PyStr("No major issues found."),
                     suggestions |->
                         <<"Ensure all functions and classes have docstrings.",
                           "Aim for a cyclomatic complexity below 5 for each function.">>]

\* the empty text was analysed and a report came back
C15_Witness ==
    /\ call = "analyze_code_quality"
    /\ file_content = EmptyFile
    /\ Returned
    /\ result.status # "error"

\* the and/or operators of the expression of a statement: n operands are joined
\* by n - 1 operators
BooleanOperators(stmt) ==
    IF stmt.kind = "Expr" /\ stmt.value.type = "BoolOp" THEN stmt.value.nvalues - 1 ELSE 0

\* no if, loop, with-block or except clause anywhere in the subtree of n
OnlyBooleanBranching(tree, n) ==
    \A i \in Subtree(tree, n) :
        /\ tree[i].kind \notin BlockKinds
        /\ tree[i].kind = "Try" => tree[i].handlers = 0

\* C20: every and/or operator adds exactly 1 to the complexity score, each
\* operator of a chained expression included: a function whose only branching
\* is `a and b and c` scores 3.
C20_EveryBooleanOperatorAddsOne ==
    Analyzed =>
        LET tree == Parsed.tree
        IN  \A n \in FunctionDefs(tree) :
                OnlyBooleanBranching(tree, n)
                    => complexity(tree, n)
                           = 1 + SumOver(Subtree(tree, n),
                                         [i \in DOMAIN tree |-> BooleanOperators(tree[i])])

\* C11: the vulnerability table is never mutated after construction: after any
\* sequence of calls of the four operations, and after any use a caller makes of
\* the results it is given, it is equal to its initial three entries.
C11_TableNeverMutated == vulnerability_db = VulnerabilityDb

\* C16: scan_for_security_issues returns status "scan_complete" and the fixed
\* recommendation; the vulnerabilities field is the "none found" sentinel exactly
\* when no line matched, and else the list of one finding per matching line
\* (a repeated declaration gives a repeated finding), in the order of the lines,
\* each pairing the declaration with its version specifier and the table entry.
C16_OneFindingPerMatchingLineInOrder ==
    Scanned =>
        LET text == dependency_file_content
            hits == {p \in LineStarts(text) : ExpectedFindings(vulnerability_db, text, p) # {}}
            nth(k) == CHOOSE p \in hits : Cardinality({q \in hits : q < p}) = k - 1
        IN  /\ DOMAIN result = {"status", "vulnerabilities", "recommendation"}
            /\ result.status = "scan_complete"
            /\ result.recommendation
                   = "Always keep dependencies up to date and review their security advisories."
            /\ (hits = {}) <=>
                   result.vulnerabilities
                       = PyStr("No known vulnerabilities found in the provided dependencies.")
            /\ hits # {} =>
                   /\ result.vulnerabilities.type = "list"
                   /\ DOMAIN result.vulnerabilities.value = 1..Cardinality(hits)
                   /\ \A k \in 1..Cardinality(hits) :
                          result.vulnerabilities.value[k]
                              \in ExpectedFindings(vulnerability_db, text, nth(k))

\* a file that declares one package twice, with and without a version, was
\* scanned: two findings with the same table entry, in the order of the lines
C16_Witness ==
    /\ Scanned
    /\ Len(Findings) = 2
    /\ Findings[1].issue_details = Findings[2].issue_details
    /\ "=" \in Range(Findings[1].dependency)
    /\ "=" \notin Range(Findings[2].dependency)

\* the parts of the document a call of generate_documentation returned
Parts == result.documentation

SubtreeScore(tree, n) ==
    1 + SumOver(Subtree(tree, n), [i \in DOMAIN tree |-> CountBranches(NodeTypes(tree[i]))])

\* C18: the overall_complexity_score is the sum of the scores of all analysed
\* functions, each taken over its full subtree: a branching construct inside an
\* inner function counts once for the inner function and once more for each
\* function around it.
C18_OverallScoreSumsSubtreeScores ==
    Analyzed =>
        result.overall_complexity_score
            = SumOver(FunctionDefs(Parsed.tree),
                      [n \in DOMAIN Parsed.tree |-> SubtreeScore(Parsed.tree, n)])

\* a function holding a function holding an if was analysed: the if counts for
\* both, 2 + 2
C18_Witness ==
    /\ Analyzed
    /\ \E n, m, b \in DOMAIN Parsed.tree :
           /\ Parsed.tree[n].kind = "FunctionDef"
           /\ Parsed.tree[m].kind = "FunctionDef"
           /\ Parsed.tree[b].kind = "If"
           /\ m \in Subtree(Parsed.tree, n) \ {n}
           /\ b \in Subtree(Parsed.tree, m)
    /\ result.overall_complexity_score = 4

\* C19: the issue list is in depth-first declaration order of the functions (the
\* issues of a function inside an earlier top-level definition come before those
\* of any later top-level definition), and for one function its missing-docstring
\* issue comes before its high-complexity issue.
C19_IssuesInDeclarationOrder ==
    Analyzed =>
        LET tree == Parsed.tree
            declared == SelectSeq(Indexes(tree), LAMBDA n : tree[n].kind = "FunctionDef")
        IN  Issues = Concat([k \in DOMAIN declared |-> FunctionIssues(tree, declared[k])])

\* the invocations that returned a value
ReturnedCalls == {t \in DOMAIN invocations : invocations[t].pc = "returned"}

\* what a call returns when it is the only call made on a new agent
RunAlone(op, args) ==
    CASE op = "analyze_code_quality" -> AnalyzeCodeQuality(args.file_content)
      [] op = "generate_documentation" ->
             GenerateDocumentation(args.file_content, args.file_path)
      [] op = "create_qa_tests" -> CreateQaTests(args.file_content, args.function_name)
      [] op = "scan_for_security_issues" ->
             ScanForSecurityIssues(VulnerabilityDb, args.dependency_file_content)

\* C12: each operation is deterministic and keeps no state from call to call:
\* two calls of it on one agent with identical inputs, whatever other calls are
\* made in between, return equal results.
C12_SameInputsSameResult ==
    \A t, u \in ReturnedCalls :
        (invocations[t].op = invocations[u].op /\ invocations[t].args = invocations[u].args)
            => invocations[t].result = invocations[u].result

\* one manifest was scanned twice and another operation was called, the three
\* calls one after the other, and both scans reported findings
C12_Witness ==
    \E t, u, v \in ReturnedCalls :
        /\ t # u
        /\ invocations[t].op = "scan_for_security_issues"
        /\ invocations[u].op = "scan_for_security_issues"
        /\ invocations[t].args = invocations[u].args
        /\ invocations[v].op = "analyze_code_quality"
        /\ \A w \in {t, u, v} : ~invocations[w].overlapped
        /\ invocations[t].result.vulnerabilities.type = "list"
        /\ invocations[u].result = invocations[t].result

\* C13: when several calls run side by side on one agent, under every
\* interleaving of their steps each returns exactly what it returns when run
\* alone on its input.
C13_ConcurrentCallsReturnAsAlone ==
    \A t \in ReturnedCalls :
        invocations[t].result = RunAlone(invocations[t].op, invocations[t].args)

\* a scan and an analysis that ran while other calls were in their loops have
\* both returned, with findings and with issues
C13_Witness ==
    \E t, u \in ReturnedCalls :
        /\ invocations[t].overlapped
        /\ invocations[u].overlapped
        /\ invocations[t].op = "scan_for_security_issues"
        /\ invocations[t].result.vulnerabilities.type = "list"
        /\ invocations[u].op = "analyze_code_quality"
        /\ invocations[u].result.status = "analysis_complete"
        /\ invocations[u].result.issues_found.type = "list"

\* C21: when the source holds several function definitions named
\* function_name, create_qa_tests builds the skeleton from the first of them in
\* declaration (source) order, also when that one is inside a class or a
\* function and a later one is at top level.
C21_FirstInDeclarationOrder ==
    (TestsRun /\ result.status = "tests_generated") =>
        LET tree == Parsed.tree
            named == {n \in FunctionDefs(tree) : tree[n].name = function_name}
            first == CHOOSE n \in named : \A m \in named : n <= m
        IN  result.test_suite_code.nominal_case_arguments
                = Join(ArgsWithTypes(tree[first].params))

\* C30: in the document of generate_documentation the bullet of every method
\* comes after the heading of the class that defines it and before the heading
\* of any other class.
C30_MethodsFollowTheirClassHeading ==
    (call = "generate_documentation" /\ Returned /\ ~ParseFails) =>
        LET tree == Parsed.tree
            methods == {n \in FunctionDefs(tree) :
                           Parent(tree, n) # Module /\ tree[Parent(tree, n)].kind = "ClassDef"}
        IN  \A n \in methods :
                \E i, j \in DOMAIN Parts :
                    /\ i < j
                    /\ Parts[i] = [part |-> "class", name |-> tree[Parent(tree, n)].name]
                    /\ Parts[j].part = "def"
                    /\ Parts[j].name = tree[n].name
                    /\ \A k \in (i + 1)..(j - 1) : Parts[k].part # "class"

----------------------------------------------------------------------------
(* GitHub as PyGithub shows it to app/agent.py and to GitHubIntegration.

   The authenticated user owns the repositories of `repositories`: a function
   from repository name to the repository, which holds its branches (each a
   function from path to what is at that path) and its pull requests and
   releases.  Every API call is answered from that state, unless it fails: it
   may fail with a GithubException (a server error, a rate limit), or with the
   404 that PyGithub raises as UnknownObjectException (GitHub also answers 404
   to a request the token may not make).  UnknownObjectException is a subclass
   of GithubException. *)

MaxFaults == 1     \* API calls of one tool call that fail for a reason outside the repository
MaxTodoItems == 2  \* calls of update_github_todo_md_tool in one behaviour
MaxFixes == 2      \* fixes given to create_github_pr_with_fixes_tool
MaxMessages == 5   \* messages of one run of the workflow

Login == "me"

FullName(owner, name) == [owner |-> owner, name |-> name]

\* what is at a path of a branch
Absent == [kind |-> "absent"]
Directory == [kind |-> "dir"]
File(content) == [kind |-> "file", content |-> content]

\* bytes that are not UTF-8 text: bytes.decode("utf-8") raises on them
NotUtf8 == <<"\\xff">>

\* the blob hash GitHub keeps for a file
Sha(content) == [blob |-> content]

ContentFile(path, content) ==
    [type |-> "ContentFile", path |-> path, content |-> content, sha |-> Sha(content)]

\* repo.get_contents of a directory returns a list
DirectoryListing == [type |-> "list"]

Paths == {"TODO.md", "app.py", "docs"}

EmptyTree == [p \in Paths |-> Absent]

\* create_repo(auto_init=True) makes the first commit with a README, outside Paths
NewRepository(auto_init) ==
    [branches |-> IF auto_init THEN ("main" :> EmptyTree) ELSE <<>>,
     pulls |-> <<>>,
     releases |-> <<>>]

\* the branch a call without branch or ref works on
DefaultBranch == "main"

\* a call that names no branch
NoBranch == "(default)"

BranchOf(ref) == IF ref = NoBranch THEN DefaultBranch ELSE ref

Answer(v) == [raised |-> "none", value |-> v]

GithubException(status) == [raised |-> "GithubException", status |-> status]

UnknownObjectException == [raised |-> "UnknownObjectException", status |-> 404]

\* `except GithubException` catches both
IsGithubException(response) ==
    response.raised \in {"GithubException", "UnknownObjectException"}

Faults == {"none", "error", "not_found"}

NoFaults(n) == [k \in 1..n |-> "none"]

\* which of the next n API calls fail for a reason outside the repository
RECURSIVE FaultPlansUpTo(_, _)
FaultPlansUpTo(n, m) ==
    IF m = 0 THEN {NoFaults(n)}
    ELSE LET fewer == FaultPlansUpTo(n, m - 1)
         IN  fewer \cup {[plan EXCEPT ![k] = f] :
                             plan \in fewer, k \in 1..n, f \in Faults \ {"none"}}

FaultPlans(n) == FaultPlansUpTo(n, MaxFaults)

HasFile(remote, name, branch, path) ==
    /\ name \in DOMAIN remote
    /\ branch \in DOMAIN remote[name].branches
    /\ remote[name].branches[branch][path].kind = "file"

WriteFile(remote, name, branch, path, content) ==
    [remote EXCEPT ![name].branches[branch][path] = File(content)]

\* the answer of GitHub to a request, and the repositories after it
Served(remote, request) ==
    LET a == request.args
        same(response) == [response |-> response, remote |-> remote]
    IN  CASE request.method = "get_repo" ->
                 IF a.full_name.owner = Login /\ a.full_name.name \in DOMAIN remote
                 THEN same(Answer([type |-> "Repository", name |-> a.full_name.name]))
                 ELSE same(UnknownObjectException)
          [] request.method = "user.get_repo" ->
                 IF a.name \in DOMAIN remote
                 THEN same(Answer([type |-> "Repository", name |-> a.name]))
                 ELSE same(UnknownObjectException)
          [] request.method = "create_repo" ->
                 IF a.name \in DOMAIN remote
                 THEN same(GithubException(422))
                 ELSE [response |-> Answer([type |-> "Repository", name |-> a.name]),
                       remote |-> (a.name :> NewRepository(a.auto_init)) @@ remote]
          [] request.method = "get_contents" ->
                 LET branch == BranchOf(a.ref)
                 IN  IF branch \notin DOMAIN remote[a.repo].branches
                     THEN same(UnknownObjectException)
                     ELSE LET at == remote[a.repo].branches[branch][a.path]
                          IN  IF at.kind = "absent" THEN same(UnknownObjectException)
                              ELSE IF at.kind = "dir" THEN same(Answer(DirectoryListing))
                              ELSE same(Answer(ContentFile(a.path, at.content)))
          [] request.method = "update_file" ->
                 LET branch == BranchOf(a.branch)
                 IN  IF branch \notin DOMAIN remote[a.repo].branches
                     THEN same(UnknownObjectException)
                     ELSE IF /\ HasFile(remote, a.repo, branch, a.path)
                             /\ Sha(remote[a.repo].branches[branch][a.path].content) = a.sha
                     THEN [response |-> Answer([path |-> a.path]),
                           remote |-> WriteFile(remote, a.repo, branch, a.path, a.content)]
                     ELSE same(GithubException(409))
          [] request.method = "create_file" ->
                 LET branch == BranchOf(a.branch)
                 IN  IF branch \notin DOMAIN remote[a.repo].branches
                     THEN same(UnknownObjectException)
                     ELSE IF remote[a.repo].branches[branch][a.path].kind = "absent"
                     THEN [response |-> Answer([path |-> a.path]),
                           remote |-> WriteFile(remote, a.repo, branch, a.path, a.content)]
                     ELSE same(GithubException(422))
          [] request.method = "get_branch" ->
                 IF a.branch \in DOMAIN remote[a.repo].branches
                 THEN same(Answer([name |-> a.branch,
                                   commit |-> [sha |-> [tree |-> remote[a.repo].branches[a.branch]]]]))
                 ELSE same(UnknownObjectException)
          [] request.method = "create_git_ref" ->
                 IF a.ref.branch \in DOMAIN remote[a.repo].branches
                 THEN same(GithubException(422))
                 ELSE [response |-> Answer([ref |-> a.ref]),
                       remote |-> [remote EXCEPT ![a.repo].branches =
                                       (a.ref.branch :> a.sha.tree) @@ @]]
          [] request.method = "create_pull" ->
                 IF {a.head, a.base} \subseteq DOMAIN remote[a.repo].branches
                 THEN LET number == Len(remote[a.repo].pulls) + 1
                          pr == [number |-> number, html_url |-> [repo |-> a.repo, pull |-> number],
                                 title |-> a.title, body |-> a.body, head |-> a.head,
                                 base |-> a.base, draft |-> a.draft]
                      IN  [response |-> Answer(pr),
                           remote |-> [remote EXCEPT ![a.repo].pulls = Append(@, pr)]]
                 ELSE same(GithubException(422))
          [] request.method = "create_review_request" ->
                 same(Answer(PyNone))
          [] request.method = "create_git_release" ->
                 IF \E r \in Range(remote[a.repo].releases) : r.tag_name = a.tag
                 THEN same(GithubException(422))
                 ELSE LET release == [name |-> a.name, tag_name |-> a.tag,
                                      html_url |-> [repo |-> a.repo, release |-> a.tag]]
                      IN  [response |-> Answer(release),
                           remote |-> [remote EXCEPT ![a.repo].releases = Append(@, release)]]

\* the answer to a request that may fail for a reason outside the repository
Respond(remote, request, fault) ==
    IF fault = "error" THEN [response |-> GithubException(500), remote |-> remote]
    ELSE IF fault = "not_found" THEN [response |-> UnknownObjectException, remote |-> remote]
    ELSE Served(remote, request)

\* A tool call as it runs: the repositories, the faults of its coming API calls,
\* the API calls it made, and the answer to the last of them.
Start(env) ==
    [remote |-> env.remote, faults |-> env.faults, calls |-> <<>>, response |-> Answer(PyNone)]

Called(s, request, out) ==
    [remote |-> out.remote,
     faults |-> Tail(s.faults),
     calls |-> Append(s.calls, [request |-> request, response |-> out.response]),
     response |-> out.response]

Requested(s, request) == Called(s, request, Respond(s.remote, request, Head(s.faults)))

Call(s, method, args) == Requested(s, [method |-> method, args |-> args])

\* what a function leaves when it returns or raises
Return(s, value) == [result |-> value, calls |-> s.calls, remote |-> s.remote]

\* Another client of the repository (a tool call that runs in parallel, another
\* user) commits between two API calls of this tool call.
OtherClient(s, writes, name, branch, path, content) ==
    IF /\ writes
       /\ name \in DOMAIN s.remote
       /\ branch \in DOMAIN s.remote[name].branches
       /\ s.remote[name].branches[branch][path].kind # "dir"
    THEN [s EXCEPT !.remote = WriteFile(s.remote, name, branch, path, content)]
    ELSE s

Theirs == <<"theirs">>

----------------------------------------------------------------------------
(* LeadDeveloperAgent.commit_code_changes *)

\* lines 101-124
commit_code_changes(repo_full_name, path, new_content, commit_message, branch) ==
    IF commit_message = <<>> \/ Len(strip(commit_message)) < 5
    THEN [status |-> "pre_commit_failed",
          message |-> "Commit message is too short. Please provide a more descriptive message.",
          repo_full_name |-> repo_full_name,
          file_path |-> path,
          branch |-> branch]
    ELSE [status |-> "approved_for_commit",
          repo_full_name |-> repo_full_name,
          file_path |-> path,
          new_content_provided |-> TRUE,
          commit_message |-> <<"[Lead Dev Review] ">> \o commit_message,
          branch |-> branch]

----------------------------------------------------------------------------
(* The GitHub logic functions of app/agent.py.  Each is a function of its
   arguments and of env: the token, the repositories, the faults of its API
   calls, and whether another client commits between its read and its write.
   The operators named after(...) are the rest of the function after an API
   call, given the running call s that the API call left. *)

get_github_instance_Unchecked(token) == [type |-> "Github", value |-> <<"none">>]

\* lines 86-90
get_github_instance(token) ==
    IF ~Truthy(token) THEN PyNone ELSE [type |-> "Github", value |-> token.value]

ErrorConfig == [error |-> "GitHub token not configured.", status |-> "error_config"]

\* the dict of an `except GithubException as e` clause
ErrorApi(what, response) ==
    [error |-> [text |-> what, status |-> response.status], status |-> "error_api"]

\* bytes.decode("utf-8") of the content of a file
Decodes(content) == content # NotUtf8

\* lines 100-127
GetRepoDetailsLogic(env, repo_identifier) ==
    LET found(todo) ==
            [status |-> "exists", repo_full_name |-> repo_identifier, todo_md_content |-> todo]
        afterContents(s) ==
            IF s.response.raised = "UnknownObjectException" THEN Return(s, found(<<>>))
            ELSE IF s.response.raised = "GithubException"
            THEN Return(s, ErrorApi("Failed to access repo: ", s.response))
            ELSE IF s.response.value.type = "list" THEN Return(s, [raised |-> "AttributeError"])
            ELSE IF ~Decodes(s.response.value.content)
            THEN Return(s, [raised |-> "UnicodeDecodeError"])
            ELSE Return(s, found(s.response.value.content))
        afterRepo(s) ==
            IF s.response.raised = "UnknownObjectException"
            THEN Return(s, [status |-> "not_found"])
            ELSE IF s.response.raised = "GithubException"
            THEN Return(s, ErrorApi("Failed to access repo: ", s.response))
            ELSE afterContents(Call(s, "get_contents",
                                    [repo |-> s.response.value.name, path |-> "TODO.md",
                                     ref |-> NoBranch]))
    IN  IF ~Truthy(get_github_instance(env.token)) THEN Return(Start(env), ErrorConfig)
        ELSE afterRepo(Call(Start(env), "get_repo", [full_name |-> repo_identifier]))

\* lines 147-189
CreateRepoLogic(env, repo_name, description, make_private, auto_init, license_template) ==
    LET afterCreate(s) ==
            IF IsGithubException(s.response)
            THEN Return(s, ErrorApi("Failed to create repo: ", s.response))
            ELSE Return(s, [status |-> "created", repo_full_name |-> FullName(Login, repo_name)])
        afterCheck(s) ==
            IF s.response.raised = "none"
            THEN Return(s, [error |-> "already exists", status |-> "error_exists",
                            repo_full_name |-> FullName(Login, repo_name)])
            ELSE IF s.response.raised = "GithubException"
            THEN Return(s, ErrorApi("Failed to create repo: ", s.response))
            ELSE afterCreate(Call(s, "create_repo",
                                  [name |-> repo_name, description |-> description,
                                   private |-> make_private, auto_init |-> auto_init,
                                   license_template |-> license_template]))
    IN  IF ~Truthy(get_github_instance(env.token)) THEN Return(Start(env), ErrorConfig)
        ELSE afterCheck(Call(Start(env), "user.get_repo", [name |-> repo_name]))

TodoHeader == <<"# Project TODOs\n\n- ">>

TodoBullet == <<"\n- ">>

AppendedTodo_Rewritten(existing_content, task_summary) == TodoHeader \o task_summary

\* line 205
AppendedTodo(existing_content, task_summary) == existing_content \o TodoBullet \o task_summary

\* line 209
FirstTodo(task_summary) == TodoHeader \o task_summary

TodoUpdated == [todo_status |-> "updated/created", todo_file_path |-> "TODO.md"]

\* what another run of update_github_todo_md_tool leaves in TODO.md
TheirTodo(remote, repo) ==
    IF HasFile(remote, repo, DefaultBranch, "TODO.md")
    THEN IF Decodes(remote[repo].branches[DefaultBranch]["TODO.md"].content)
         THEN AppendedTodo(remote[repo].branches[DefaultBranch]["TODO.md"].content, Theirs)
         ELSE remote[repo].branches[DefaultBranch]["TODO.md"].content
    ELSE FirstTodo(Theirs)

\* lines 200-222; another client, if there is one, adds its own item
UpdateRepoTodoLogic(env, repo_full_name, task_summary, commit_message) ==
    LET failed(s) == Return(s, ErrorApi("Failed to update TODO.md: ", s.response))
        afterWrite(s) == IF IsGithubException(s.response) THEN failed(s) ELSE Return(s, TodoUpdated)
        create(s, repo) ==
            afterWrite(Call(s, "create_file",
                            [repo |-> repo, path |-> "TODO.md", message |-> commit_message,
                             content |-> FirstTodo(task_summary), branch |-> NoBranch]))
        afterUpdate(s, repo) ==
            IF s.response.raised = "UnknownObjectException" THEN create(s, repo)
            ELSE afterWrite(s)
        afterRead(s, repo) ==
            IF s.response.raised = "UnknownObjectException" THEN create(s, repo)
            ELSE IF s.response.raised = "GithubException" THEN failed(s)
            ELSE IF s.response.value.type = "list" THEN Return(s, [raised |-> "AttributeError"])
            ELSE IF ~Decodes(s.response.value.content)
            THEN Return(s, [raised |-> "UnicodeDecodeError"])
            ELSE afterUpdate(Call(s, "update_file",
                                  [repo |-> repo, path |-> s.response.value.path,
                                   message |-> commit_message,
                                   content |-> AppendedTodo(s.response.value.content,
                                                            task_summary),
                                   sha |-> s.response.value.sha, branch |-> NoBranch]),
                             repo)
        read(s, repo) ==
            OtherClient(s, env.other, repo, DefaultBranch, "TODO.md", TheirTodo(s.remote, repo))
        afterRepo(s) ==
            IF IsGithubException(s.response) THEN failed(s)
            ELSE afterRead(read(Call(s, "get_contents",
                                     [repo |-> s.response.value.name, path |-> "TODO.md",
                                      ref |-> NoBranch]),
                                s.response.value.name),
                           s.response.value.name)
    IN  IF ~Truthy(get_github_instance(env.token)) THEN Return(Start(env), ErrorConfig)
        ELSE afterRepo(Call(Start(env), "get_repo", [full_name |-> repo_full_name]))

\* lines 231-246
GetFileContentLogic(env, repo_full_name, path) ==
    LET failed(s) ==
            IF s.response.raised = "UnknownObjectException"
            THEN Return(s, [error |-> "not found", status |-> "error_not_found"])
            ELSE Return(s, ErrorApi("Error fetching file: ", s.response))
        afterContents(s) ==
            IF IsGithubException(s.response) THEN failed(s)
            ELSE IF s.response.value.type = "list"
            THEN Return(s, [error |-> "is a directory", status |-> "error_path_is_directory"])
            ELSE IF ~Decodes(s.response.value.content)
            THEN Return(s, [raised |-> "UnicodeDecodeError"])
            ELSE Return(s, [repo_full_name |-> repo_full_name, file_path |-> path,
                            content |-> s.response.value.content, status |-> "success"])
        afterRepo(s) ==
            IF IsGithubException(s.response) THEN failed(s)
            ELSE afterContents(Call(s, "get_contents",
                                    [repo |-> s.response.value.name, path |-> path,
                                     ref |-> NoBranch]))
    IN  IF ~Truthy(get_github_instance(env.token)) THEN Return(Start(env), ErrorConfig)
        ELSE afterRepo(Call(Start(env), "get_repo", [full_name |-> repo_full_name]))

\* lines 258-272; another client, if there is one, commits to the same path
CommitFileChangesLogic(env, repo_full_name, path, new_content, commit_message, branch) ==
    LET failed(s) == Return(s, ErrorApi("Error committing file: ", s.response))
        done(s, action) ==
            Return(s, [status |-> action, file_path |-> path,
                       repo_full_name |-> repo_full_name, branch |-> branch,
                       commit_message |-> commit_message])
        afterCreate(s) ==
            IF IsGithubException(s.response) THEN failed(s) ELSE done(s, "file_created")
        create(s, repo) ==
            afterCreate(Call(s, "create_file",
                             [repo |-> repo, path |-> path, message |-> commit_message,
                              content |-> new_content, branch |-> branch]))
        afterUpdate(s, repo) ==
            IF s.response.raised = "UnknownObjectException" THEN create(s, repo)
            ELSE IF s.response.raised = "GithubException" THEN failed(s)
            ELSE done(s, "file_updated")
        afterRead(s, repo) ==
            IF s.response.raised = "UnknownObjectException" THEN create(s, repo)
            ELSE IF s.response.raised = "GithubException" THEN failed(s)
            ELSE IF s.response.value.type = "list" THEN Return(s, [raised |-> "AttributeError"])
            ELSE afterUpdate(Call(s, "update_file",
                                  [repo |-> repo, path |-> s.response.value.path,
                                   message |-> commit_message, content |-> new_content,
                                   sha |-> s.response.value.sha, branch |-> branch]),
                             repo)
        afterRepo(s) ==
            IF IsGithubException(s.response) THEN failed(s)
            ELSE afterRead(OtherClient(Call(s, "get_contents",
                                            [repo |-> s.response.value.name, path |-> path,
                                             ref |-> branch]),
                                       env.other, s.response.value.name, branch, path, Theirs),
                           s.response.value.name)
    IN  IF ~Truthy(get_github_instance(env.token)) THEN Return(Start(env), ErrorConfig)
        ELSE afterRepo(Call(Start(env), "get_repo", [full_name |-> repo_full_name]))

\* lines 283-291
CreateBranchLogic(env, repo_full_name, new_branch_name, source_branch_name) ==
    LET failed(s) == Return(s, ErrorApi("Error creating branch: ", s.response))
        afterRef(s) ==
            IF IsGithubException(s.response) THEN failed(s)
            ELSE Return(s, [status |-> "branch_created", repo_full_name |-> repo_full_name,
                            new_branch_name |-> new_branch_name,
                            source_branch_name |-> source_branch_name])
        afterBranch(s, repo) ==
            IF IsGithubException(s.response) THEN failed(s)
            ELSE afterRef(Call(s, "create_git_ref",
                               [repo |-> repo,
                                ref |-> [heads |-> "refs/heads/", branch |-> new_branch_name],
                                sha |-> s.response.value.commit.sha]))
        afterRepo(s) ==
            IF IsGithubException(s.response) THEN failed(s)
            ELSE afterBranch(Call(s, "get_branch",
                                  [repo |-> s.response.value.name,
                                   branch |-> source_branch_name]),
                             s.response.value.name)
    IN  IF ~Truthy(get_github_instance(env.token)) THEN Return(Start(env), ErrorConfig)
        ELSE afterRepo(Call(Start(env), "get_repo", [full_name |-> repo_full_name]))

\* lines 304-314
OpenPullRequestLogic(env, repo_full_name, title, body, head_branch, base_branch, reviewers) ==
    LET failed(s) == Return(s, ErrorApi("Error opening pull request: ", s.response))
        opened(s, pr) ==
            Return(s, [status |-> "pull_request_opened", pr_number |-> pr.number,
                       pr_url |-> pr.html_url, repo_full_name |-> repo_full_name])
        afterRequest(s, pr) == IF IsGithubException(s.response) THEN failed(s) ELSE opened(s, pr)
        afterPull(s, repo) ==
            IF IsGithubException(s.response) THEN failed(s)
            ELSE IF ~Truthy(reviewers) THEN opened(s, s.response.value)
            ELSE afterRequest(Call(s, "create_review_request",
                                   [repo |-> repo, pull |-> s.response.value.number,
                                    reviewers |-> reviewers.value]),
                              s.response.value)
        afterRepo(s) ==
            IF IsGithubException(s.response) THEN failed(s)
            ELSE afterPull(Call(s, "create_pull",
                                [repo |-> s.response.value.name, title |-> title, body |-> body,
                                 head |-> head_branch, base |-> base_branch, draft |-> FALSE]),
                           s.response.value.name)
    IN  IF ~Truthy(get_github_instance(env.token)) THEN Return(Start(env), ErrorConfig)
        ELSE afterRepo(Call(Start(env), "get_repo", [full_name |-> repo_full_name]))

\* lines 320-328
CreateReleaseLogic(env, repo_full_name, tag_name, release_name, release_message) ==
    LET failed(s) == Return(s, ErrorApi("Error creating release: ", s.response))
        afterRelease(s) ==
            IF IsGithubException(s.response) THEN failed(s)
            ELSE Return(s, [status |-> "release_created",
                            release_name |-> s.response.value.name,
                            tag_name |-> s.response.value.tag_name,
                            html_url |-> s.response.value.html_url])
        afterRepo(s) ==
            IF IsGithubException(s.response) THEN failed(s)
            ELSE afterRelease(Call(s, "create_git_release",
                                   [repo |-> s.response.value.name, tag |-> tag_name,
                                    name |-> release_name, message |-> release_message]))
    IN  IF ~Truthy(get_github_instance(env.token)) THEN Return(Start(env), ErrorConfig)
        ELSE afterRepo(Call(Start(env), "get_repo", [full_name |-> repo_full_name]))

----------------------------------------------------------------------------
(* GitHubIntegration (app/utils/github_integration.py).  A method leaves the
   running call s and the exception it raised ("none" if it returned). *)

BranchName == "lighthouse-fixes"

Outcome(s, raised) == [s |-> s, raised |-> raised]

\* a method whose last statement is the API call that s made
Raises(s) == Outcome(s, s.response.raised)

\* lines 55-61
create_branch(s, repo, base_branch, new_branch) ==
    LET afterBranch(s1) ==
            IF IsGithubException(s1.response) THEN Raises(s1)
            ELSE Raises(Call(s1, "create_git_ref",
                             [repo |-> repo,
                              ref |-> [heads |-> "refs/heads/", branch |-> new_branch],
                              sha |-> s1.response.value.commit.sha]))
    IN  afterBranch(Call(s, "get_branch", [repo |-> repo, branch |-> base_branch]))

\* lines 74-76
get_file_content(s, repo, path, ref) ==
    LET afterContents(s1) ==
            IF IsGithubException(s1.response) THEN Raises(s1)
            ELSE IF s1.response.value.type = "list" THEN Outcome(s1, "AttributeError")
            ELSE IF ~Decodes(s1.response.value.content) THEN Outcome(s1, "UnicodeDecodeError")
            ELSE Outcome(s1, "none")
    IN  afterContents(Call(s, "get_contents", [repo |-> repo, path |-> path, ref |-> ref]))

\* lines 98-129
create_or_update_file(s, repo, path, content, message, branch, sha) ==
    LET update(t, with) ==
            Call(t, "update_file",
                 [repo |-> repo, path |-> path, message |-> message, content |-> content,
                  sha |-> with, branch |-> branch])
        create(t) ==
            Raises(Call(t, "create_file",
                        [repo |-> repo, path |-> path, message |-> message,
                         content |-> content, branch |-> branch]))
        afterUpdate(s3) ==
            IF s3.response.raised = "UnknownObjectException" THEN create(s3) ELSE Raises(s3)
        afterContents(s2) ==
            IF s2.response.raised = "UnknownObjectException" THEN create(s2)
            ELSE IF s2.response.raised = "GithubException" THEN Outcome(s2, "GithubException")
            ELSE IF s2.response.value.type = "list" THEN Outcome(s2, "GithubException")
            ELSE afterUpdate(update(s2, s2.response.value.sha))
    IN  IF sha # PyNone THEN Raises(update(s, sha))
        ELSE afterContents(Call(s, "get_contents",
                                [repo |-> repo, path |-> path, ref |-> branch]))

\* line 196
FixMessage(fix) == <<"Fix: ">> \o fix.issue_title \o <<"\n\n">> \o fix.description

\* lines 185-206: one turn of the loop; `except Exception` ends the turn.
\* Another client, if there is one, creates the file after the first read.
ApplyFix(s, repo, fix, other) ==
    LET write(s1, file_sha) ==
            create_or_update_file(s1, repo, fix.file_path, fix.fixed_content, FixMessage(fix),
                                  BranchName, file_sha)
        afterRead(read) ==
            IF read.raised = "none" THEN write(read.s, read.s.response.value.sha)
            ELSE IF read.raised = "UnknownObjectException"
            THEN write(OtherClient(read.s, other, repo, BranchName, fix.file_path, Theirs),
                       PyNone)
            ELSE read
    IN  afterRead(get_file_content(s, repo, fix.file_path, BranchName))

RECURSIVE ApplyEach_StopsAtFailure(_, _, _, _)
ApplyEach_StopsAtFailure(s, repo, fixes, other) ==
    LET afterTurn(turn) ==
            IF turn.raised # "none" THEN turn.s
            ELSE ApplyEach_StopsAtFailure(turn.s, repo, Tail(fixes), other)
    IN  IF fixes = <<>> THEN s ELSE afterTurn(ApplyFix(s, repo, Head(fixes), other))

\* lines 184-206
RECURSIVE ApplyEach(_, _, _, _)
ApplyEach(s, repo, fixes, other) ==
    IF fixes = <<>> THEN s
    ELSE ApplyEach(ApplyFix(s, repo, Head(fixes), other).s, repo, Tail(fixes), other)

\* lines 237-241: the paths of the fixes, each once, in the order they first occur
RECURSIVE FixedPaths(_)
FixedPaths(fixes) ==
    IF fixes = <<>> THEN <<>>
    ELSE LET before == FixedPaths(SubSeq(fixes, 1, Len(fixes) - 1))
             path == fixes[Len(fixes)].file_path
         IN  IF path \in Range(before) THEN before ELSE Append(before, path)

\* lines 244-250: the heading of a file, then its fixes in list order
FileSection(fixes, path) ==
    <<[part |-> "file", file_path |-> path]>>
    \o [k \in 1..Len(SelectSeq(fixes, LAMBDA f : f.file_path = path)) |->
           LET fix == SelectSeq(fixes, LAMBDA f : f.file_path = path)[k]
           IN  [part |-> "fix", issue_title |-> fix.issue_title,
                description |-> fix.description]]

\* lines 230-263
generate_pr_description(fixes) ==
    <<[part |-> "title"]>>
    \o Concat([k \in 1..Len(FixedPaths(fixes)) |-> FileSection(fixes, FixedPaths(fixes)[k])])
    \o <<[part |-> "review notes"]>>

PrTitle == "Lighthouse Performance Improvements"

\* lines 177-219
ApplyFixes(env, repo_name, fixes, base_branch) ==
    LET afterPull(s3) ==
            IF IsGithubException(s3.response) THEN Return(s3, [raised |-> s3.response.raised])
            ELSE Return(s3, s3.response.value)
        afterBranch(branch, repo) ==
            IF branch.raised # "none" THEN Return(branch.s, [raised |-> branch.raised])
            ELSE afterPull(Call(ApplyEach(branch.s, repo, fixes, env.other), "create_pull",
                                [repo |-> repo, title |-> PrTitle,
                                 body |-> generate_pr_description(fixes),
                                 head |-> BranchName, base |-> base_branch, draft |-> TRUE]))
        afterRepo(s1) ==
            IF IsGithubException(s1.response) THEN Return(s1, [raised |-> s1.response.raised])
            ELSE afterBranch(create_branch(s1, s1.response.value.name, base_branch, BranchName),
                             s1.response.value.name)
    IN  afterRepo(Call(Start(env), "get_repo", [full_name |-> repo_name]))

----------------------------------------------------------------------------
(* The tools of app/agent.py *)

\* what a tool call leaves: its record, the repositories, and the last result
Invoked(name, args, out) ==
    /\ tool_calls' = Append(tool_calls, [name |-> name, args |-> args, result |-> out.result,
                                         api_calls |-> out.calls])
    /\ repositories' = out.remote
    /\ call' = name
    /\ result' = out.result
    /\ UNCHANGED <<vulnerability_db, file_content, file_path, function_name,
                   dependency_file_content, invocations, GITHUB_TOKEN,
                   github_integration_instance, graph_node, messages>>

Env(faults, other) ==
    [token |-> GITHUB_TOKEN, remote |-> repositories, faults |-> faults, other |-> other]

App == <<"app">>

RepoFullNames == {FullName(Login, App), FullName(Login, <<"gone">>)}

RepoNames == {App, <<"site">>, <<"a", "/", "b">>, <<"a", " ", "b">>}

BranchNames == {"main", "dev"}

NewContents == {<<"a">>, <<"b">>}

CommitMessages ==
    {<<>>, <<" ", " ", " ", " ", " ", " ">>, <<"f", "i", "x">>, <<" ", "f", "i", "x", " ", " ">>,
     <<"t", "y", "p", "o", "s">>, <<"a", "d", "d", " ", "i", "t">>}

TaskSummaries == {<<"plan">>, <<"build">>}

\* lines 485
get_github_repo_info_tool ==
    /\ tool_calls = <<>>
    /\ \E repo_identifier \in RepoFullNames, faults \in FaultPlans(2) :
           Invoked("get_github_repo_info_tool", [repo_identifier |-> repo_identifier],
                   GetRepoDetailsLogic(Env(faults, FALSE), repo_identifier))

InvalidRepoName_SlashOnly(repo_name) == "/" \in Range(repo_name)

\* line 514
InvalidRepoName(repo_name) == "/" \in Range(repo_name) \/ " " \in Range(repo_name)

\* lines 514-524
CreateGithubRepository(env, repo_name, description, make_private, auto_init, license_template) ==
    IF InvalidRepoName(repo_name)
    THEN Return(Start(env), [error |-> "Invalid repository name.", status |-> "error_validation"])
    ELSE CreateRepoLogic(env, repo_name, description, make_private, auto_init, license_template)

create_github_repository_tool ==
    /\ tool_calls = <<>>
    /\ \E repo_name \in RepoNames, auto_init \in BOOLEAN, make_private \in BOOLEAN,
          faults \in FaultPlans(2) :
           LET args == [repo_name |-> repo_name,
                        description |-> "AI-generated project repository",
                        make_private |-> make_private, auto_init |-> auto_init,
                        license_template |-> "mit"]
           IN  Invoked("create_github_repository_tool", args,
                       CreateGithubRepository(Env(faults, FALSE), repo_name, args.description,
                                              make_private, auto_init, args.license_template))

\* lines 531-544
LeadDevCommitCode(env, repo_full_name, path, new_content, commit_message, branch) ==
    LET reviewed(response) ==
            IF response.status = "approved_for_commit"
            THEN CommitFileChangesLogic(env, repo_full_name, path, new_content,
                                        response.commit_message, branch)
            ELSE Return(Start(env), response)
    IN  reviewed(commit_code_changes(repo_full_name, path, new_content, commit_message, branch))

CommitArgs ==
    [repo_full_name : RepoFullNames, file_path : {"app.py", "docs"}, new_content : NewContents,
     commit_message : CommitMessages, branch : BranchNames]

lead_dev_commit_code_tool ==
    /\ tool_calls = <<>>
    /\ \E args \in CommitArgs, faults \in FaultPlans(4), other \in BOOLEAN :
           Invoked("lead_dev_commit_code_tool", args,
                   LeadDevCommitCode(Env(faults, other), args.repo_full_name, args.file_path,
                                     args.new_content, args.commit_message, args.branch))

\* line 558
commit_file_changes_tool ==
    /\ tool_calls = <<>>
    /\ \E args \in CommitArgs, faults \in FaultPlans(4), other \in BOOLEAN :
           Invoked("commit_file_changes_tool", args,
                   CommitFileChangesLogic(Env(faults, other), args.repo_full_name,
                                          args.file_path, args.new_content,
                                          args.commit_message, args.branch))

\* line 570
create_branch_tool ==
    /\ tool_calls = <<>>
    /\ \E repo_full_name \in RepoFullNames, new_branch_name \in BranchNames,
          source_branch_name \in BranchNames, faults \in FaultPlans(3) :
           Invoked("create_branch_tool",
                   [repo_full_name |-> repo_full_name, new_branch_name |-> new_branch_name,
                    source_branch_name |-> source_branch_name],
                   CreateBranchLogic(Env(faults, FALSE), repo_full_name, new_branch_name,
                                     source_branch_name))

\* line 585
open_pull_request_tool ==
    /\ tool_calls = <<>>
    /\ \E repo_full_name \in RepoFullNames, head_branch \in BranchNames,
          reviewers \in {PyNone, PyList(<<>>), PyList(<<"ann">>)}, faults \in FaultPlans(3) :
           LET args == [repo_full_name |-> repo_full_name, title |-> "Add the app",
                        body |-> "See the commits.", head_branch |-> head_branch,
                        base_branch |-> "main", reviewers |-> reviewers]
           IN  Invoked("open_pull_request_tool", args,
                       OpenPullRequestLogic(Env(faults, FALSE), repo_full_name, args.title,
                                            args.body, head_branch, args.base_branch, reviewers))

\* line 596
get_github_file_content_tool ==
    /\ tool_calls = <<>>
    /\ \E repo_full_name \in RepoFullNames, path \in Paths, faults \in FaultPlans(2) :
           Invoked("get_github_file_content_tool",
                   [repo_full_name |-> repo_full_name, file_path |-> path],
                   GetFileContentLogic(Env(faults, FALSE), repo_full_name, path))

\* line 615; the calls of this tool follow one another
update_github_todo_md_tool ==
    /\ Len(tool_calls) < MaxTodoItems
    /\ \A k \in DOMAIN tool_calls : tool_calls[k].name = "update_github_todo_md_tool"
    /\ \E repo_full_name \in RepoFullNames, task_summary \in TaskSummaries,
          faults \in FaultPlans(4), other \in BOOLEAN :
           LET args == [repo_full_name |-> repo_full_name, task_summary |-> task_summary,
                        commit_message |-> "Update TODO.md"]
           IN  Invoked("update_github_todo_md_tool", args,
                       UpdateRepoTodoLogic(Env(faults, other), repo_full_name, task_summary,
                                           args.commit_message))

\* line 657
create_release_tool ==
    /\ tool_calls = <<>>
    /\ \E repo_full_name \in RepoFullNames, tag_name \in {"v1", "v2"},
          faults \in FaultPlans(2) :
           LET args == [repo_full_name |-> repo_full_name, tag_name |-> tag_name,
                        release_name |-> "First release", release_message |-> "It runs."]
           IN  Invoked("create_release_tool", args,
                       CreateReleaseLogic(Env(faults, FALSE), repo_full_name, tag_name,
                                          args.release_name, args.release_message))

\* a dict of the list `fixes`
FixItem(path, title) ==
    [file_path |-> path, original_content |-> <<"old">>, fixed_content |-> <<"fixed">>,
     description |-> <<"why ", title>>, issue_title |-> <<title>>]

\* a dict without the key issue_title: CodeFix(**fix_item) raises TypeError
Malformed == [file_path |-> "app.py", original_content |-> <<"old">>,
              fixed_content |-> <<"fixed">>, description |-> <<"why">>]

FixItems == {FixItem("app.py", "contrast"), FixItem("app.py", "alt text"),
             FixItem("docs", "viewport"), Malformed}

FixLists == UNION {[1..n -> FixItems] : n \in 0..MaxFixes}

\* line 750
IsCodeFix(fix_item) == DOMAIN fix_item = DOMAIN FixItem("app.py", "contrast")

FixesToolReturn_Uncaught(out) == out

\* lines 751-753
FixesToolReturn(out) ==
    IF "raised" \in DOMAIN out.result
    THEN [out EXCEPT !.result = [text |-> "Error creating pull request with fixes: ",
                                 e |-> out.result.raised]]
    ELSE [out EXCEPT !.result = [text |-> "Created pull request: ",
                                 html_url |-> out.result.html_url]]

NotConfigured ==
    [text |-> "GitHub integration not configured. Set GITHUB_TOKEN environment variable."]

\* lines 746-753
CreateGithubPrWithFixes(env, instance, repo_full_name, fixes, base_branch) ==
    IF ~Truthy(instance) THEN Return(Start(env), NotConfigured)
    ELSE IF \E k \in DOMAIN fixes : ~IsCodeFix(fixes[k])
    THEN FixesToolReturn(Return(Start(env), [raised |-> "TypeError"]))
    ELSE FixesToolReturn(ApplyFixes(env, repo_full_name, fixes, base_branch))

create_github_pr_with_fixes_tool ==
    /\ tool_calls = <<>>
    /\ \E repo_full_name \in RepoFullNames, fixes \in FixLists, base_branch \in BranchNames,
          other \in BOOLEAN :
       \E faults \in FaultPlans(4 + 4 * Len(fixes)) :
           Invoked("create_github_pr_with_fixes_tool",
                   [repo_full_name |-> repo_full_name, fixes |-> fixes,
                    base_branch |-> base_branch],
                   CreateGithubPrWithFixes(Env(faults, other), github_integration_instance,
                                           repo_full_name, fixes, base_branch))

----------------------------------------------------------------------------
(* The workflow graph: agent, then should_continue, then tool_executor or the
   end; tool_executor, then agent. *)

END == "__end__"

ToolCallLists ==
    UNION {[1..n -> {"gather_requirements_tool", "commit_file_changes_tool"}] : n \in 0..2}

AIMessage(calls) == [type |-> "ai", tool_calls |-> calls]

ToolMessage(name, content) == [type |-> "tool", name |-> name, content |-> content]

Last(s) == s[Len(s)]

ShouldContinue_AlwaysTools(state) == "tool_executor"

\* lines 835-836
ShouldContinue(state) ==
    IF Last(state.messages).tool_calls # <<>> THEN "tool_executor" ELSE END

graphUnchanged ==
    UNCHANGED <<vulnerability_db, file_content, file_path, function_name,
                dependency_file_content, call, result, invocations, GITHUB_TOKEN,
                github_integration_instance, repositories, tool_calls>>

\* lines 839-890: the node "agent"; the model answers with or without tool calls
call_model ==
    /\ graph_node = "agent"
    /\ Len(messages) < MaxMessages
    /\ \E calls \in ToolCallLists : messages' = Append(messages, AIMessage(calls))
    /\ graph_node' = "should_continue"
    /\ graphUnchanged

\* line 900: the conditional edge out of "agent"
should_continue ==
    /\ graph_node = "should_continue"
    /\ graph_node' = ShouldContinue([messages |-> messages])
    /\ UNCHANGED messages
    /\ graphUnchanged

\* lines 896 and 901: the node "tool_executor" answers every tool call of the
\* last message, then the edge to "agent"
tool_executor ==
    /\ graph_node = "tool_executor"
    /\ \E contents \in [DOMAIN Last(messages).tool_calls -> {"done", "error"}] :
           messages' = messages \o [k \in DOMAIN contents |->
                                       ToolMessage(Last(messages).tool_calls[k], contents[k])]
    /\ graph_node' = "agent"
    /\ graphUnchanged

----------------------------------------------------------------------------
(* The states the tools are started in *)

Tokens == {PyNone, PyStr(<<>>), PyStr(<<"ghp_1">>)}

\* line 47: the integration exists if the token was set when the module was loaded
GitHubIntegration(token) ==
    IF Truthy(token) THEN [type |-> "GitHubIntegration", value |-> token.value] ELSE PyNone

Tree(todo, app, docs) ==
    [p \in Paths |-> IF p = "TODO.md" THEN todo ELSE IF p = "app.py" THEN app ELSE docs]

Repository(branches) == [branches |-> branches, pulls |-> <<>>, releases |-> <<>>]

\* a repository with the branch main, and the other branches at the same commit
Repositories(trees, others) ==
    {App :> Repository([b \in {"main"} \cup more |-> tree]) :
        tree \in trees, more \in SUBSET others}

InitGithub(tokens, remotes, inbox) ==
    /\ vulnerability_db = VulnerabilityDb
    /\ file_content = EmptyFile
    /\ file_path = "app.py"
    /\ function_name = "add"
    /\ dependency_file_content = <<>>
    /\ call = "none"
    /\ result = NoCall
    /\ invocations = <<>>
    /\ GITHUB_TOKEN \in tokens
    /\ github_integration_instance = GitHubIntegration(GITHUB_TOKEN)
    /\ repositories \in remotes
    /\ tool_calls = <<>>
    /\ graph_node = "agent"
    /\ messages \in inbox

TodoFiles == {Absent, File(<<"notes">>), File(NotUtf8), Directory}

AppFiles == {Absent, File(<<"a">>), File(<<"old">>)}

\* every logic function, with and without a token
InitConfig ==
    InitGithub(Tokens, {<<>>} \cup Repositories({Tree(t, File(<<"a">>), Directory) :
                                                     t \in {Absent, File(<<"notes">>)}},
                                                {"dev"}),
               {<<>>})

NextConfig ==
    \/ get_github_repo_info_tool
    \/ create_github_repository_tool
    \/ update_github_todo_md_tool
    \/ get_github_file_content_tool
    \/ commit_file_changes_tool
    \/ create_branch_tool
    \/ open_pull_request_tool
    \/ create_release_tool

SpecConfig == InitConfig /\ [][NextConfig]_vars

\* the two tools that commit a file
InitCommit ==
    InitGithub(Tokens, Repositories({Tree(Absent, a, d) : a \in AppFiles, d \in {Absent, Directory}},
                                    {"dev"}),
               {<<>>})

NextCommit ==
    \/ lead_dev_commit_code_tool
    \/ commit_file_changes_tool

SpecCommit == InitCommit /\ [][NextCommit]_vars

\* the creation of repositories
InitRepository ==
    InitGithub(Tokens, {[name \in names |-> NewRepository(TRUE)] :
                            names \in SUBSET {App, <<"site">>}},
               {<<>>})

NextRepository == create_github_repository_tool

SpecRepository == InitRepository /\ [][NextRepository]_vars

\* calls of update_github_todo_md_tool, one after the other
InitTodo ==
    InitGithub(Tokens, Repositories({Tree(t, Absent, Absent) : t \in TodoFiles}, {}), {<<>>})

NextTodo == update_github_todo_md_tool

SpecTodo == InitTodo /\ [][NextTodo]_vars

\* create_github_pr_with_fixes_tool
InitFixes ==
    InitGithub(Tokens, Repositories({Tree(Absent, a, Directory) :
                                         a \in {Absent, File(<<"old">>), File(NotUtf8)}},
                                    {BranchName}),
               {<<>>})

NextFixes == create_github_pr_with_fixes_tool

SpecFixes == InitFixes /\ [][NextFixes]_vars

\* a run of the workflow on the message of the user
InitWorkflow ==
    InitGithub(Tokens, {<<>>},
               {<<[type |-> "human", content |-> content]>> : content \in {"hello", "build an app"}})

NextWorkflow ==
    \/ call_model
    \/ should_continue
    \/ tool_executor

SpecWorkflow == InitWorkflow /\ [][NextWorkflow]_vars

\* a node that can run does run
FairSpecWorkflow == SpecWorkflow /\ WF_vars(NextWorkflow)

----------------------------------------------------------------------------
(* Properties of the GitHub tools *)

\* the status of a result, if it has one
StatusOf(r) == IF "status" \in DOMAIN r THEN r.status ELSE "(none)"

\* a function that raised instead of returning
HasRaised(r) == "raised" \in DOMAIN r

\* the API calls of a log made with one of the methods
CallsOf(calls, methods) == SelectSeq(calls, LAMBDA c : c.request.method \in methods)

WritesOf(calls) == CallsOf(calls, {"update_file", "create_file"})

NameHasSlashOrSpace(repo_name) ==
    \E i \in DOMAIN repo_name : repo_name[i] = "/" \/ repo_name[i] = " "

\* the tool calls that reach the logic function of the tool
ReachesLogic(c) ==
    c.name = "create_github_repository_tool" => ~NameHasSlashOrSpace(c.args.repo_name)

\* C29: when the environment variable GITHUB_TOKEN is not set, each of the
\* eight GitHub logic functions returns the status "error_config", makes no
\* GitHub API call and raises nothing.
C29_NoTokenIsErrorConfigWithoutCall ==
    GITHUB_TOKEN = PyNone =>
        \A k \in DOMAIN tool_calls :
            ReachesLogic(tool_calls[k]) =>
                /\ ~HasRaised(tool_calls[k].result)
                /\ StatusOf(tool_calls[k].result) = "error_config"
                /\ tool_calls[k].api_calls = <<>>

C29_Witness ==
    /\ GITHUB_TOKEN = PyNone
    /\ App \in DOMAIN repositories
    /\ \E k \in DOMAIN tool_calls :
           /\ tool_calls[k].name = "commit_file_changes_tool"
           /\ tool_calls[k].args.repo_full_name = FullName(Login, App)
           /\ tool_calls[k].result = ErrorConfig
           /\ tool_calls[k].api_calls = <<>>

\* a commit message that commit_code_changes lets pass: not empty, and five
\* characters or more once the white space at its ends is removed
LongEnough(commit_message) ==
    /\ commit_message # <<>>
    /\ \E i, j \in DOMAIN commit_message :
           /\ j - i + 1 >= 5
           /\ commit_message[i] # " "
           /\ commit_message[j] # " "

\* the writes of lead_dev_commit_code_tool carry what the caller gave
WritesAsReviewed(c) ==
    \A i \in DOMAIN c.api_calls :
        c.api_calls[i].request.method \in {"update_file", "create_file"} =>
            /\ LongEnough(c.args.commit_message)
            /\ c.api_calls[i].request.args.content = c.args.new_content
            /\ c.api_calls[i].request.args.message
                   = <<"[Lead Dev Review] ">> \o c.args.commit_message

\* a commit message that is not long enough ends the tool before any API call
RejectedBeforeAnyCall(c) ==
    ~LongEnough(c.args.commit_message) =>
        /\ StatusOf(c.result) = "pre_commit_failed"
        /\ c.api_calls = <<>>

\* C22: lead_dev_commit_code_tool writes to GitHub (update_file, create_file)
\* only after commit_code_changes returned "approved_for_commit": with a commit
\* message that is empty or shorter than 5 characters once trimmed it returns
\* "pre_commit_failed" and makes no GitHub call; when approved, its single
\* write carries the new_content of the caller and the commit message with the
\* prefix "[Lead Dev Review] ".
C22_SingleWriteAfterApproval ==
    \A k \in DOMAIN tool_calls :
        tool_calls[k].name = "lead_dev_commit_code_tool" =>
            /\ RejectedBeforeAnyCall(tool_calls[k])
            /\ WritesAsReviewed(tool_calls[k])
            /\ Len(WritesOf(tool_calls[k].api_calls)) <= 1

\* what holds of C22: the gate and the arguments of every write
C22_GateAndArguments ==
    \A k \in DOMAIN tool_calls :
        tool_calls[k].name = "lead_dev_commit_code_tool" =>
            /\ RejectedBeforeAnyCall(tool_calls[k])
            /\ WritesAsReviewed(tool_calls[k])

\* the read of _commit_file_changes_logic, if it was made
ReadOf(calls) == CallsOf(calls, {"get_contents"})

ReadFoundFile(calls) ==
    /\ ReadOf(calls) # <<>>
    /\ ReadOf(calls)[1].response.raised = "none"
    /\ ReadOf(calls)[1].response.value.type = "ContentFile"

ReadFoundNothing(calls) ==
    /\ ReadOf(calls) # <<>>
    /\ ReadOf(calls)[1].response.raised = "UnknownObjectException"

\* the one write of the call, made with the method and accepted by GitHub
OneAcceptedWrite(calls, method) ==
    /\ Len(WritesOf(calls)) = 1
    /\ WritesOf(calls)[1].request.method = method
    /\ WritesOf(calls)[1].response.raised = "none"

\* C25: _commit_file_changes_logic makes at most one write per call; it
\* returns "file_updated" exactly when the file was on the branch when read
\* (and it updated it with the sha of that read), "file_created" exactly when
\* the read reported the file absent; every other failure (a write that GitHub
\* rejects because the file changed or appeared after the read included)
\* gives the status "error_api", never an exception and never a silent overwrite.
C25_OneWriteUpdatedCreatedOrErrorApi ==
    \A k \in DOMAIN tool_calls :
        (tool_calls[k].name = "commit_file_changes_tool" /\ Truthy(GITHUB_TOKEN)) =>
            LET calls == tool_calls[k].api_calls
                status == StatusOf(tool_calls[k].result)
            IN  /\ Len(WritesOf(calls)) <= 1
                /\ ~HasRaised(tool_calls[k].result)
                /\ status \in {"file_updated", "file_created", "error_api"}
                /\ status = "file_updated" <=>
                       /\ ReadFoundFile(calls)
                       /\ OneAcceptedWrite(calls, "update_file")
                       /\ WritesOf(calls)[1].request.args.sha = ReadOf(calls)[1].response.value.sha
                /\ status = "file_created" <=>
                       /\ ReadFoundNothing(calls)
                       /\ OneAcceptedWrite(calls, "create_file")

\* what holds of C25 when the path is not a directory and update_file is not
\* answered 404
C25_ButForDirectoryAndUpdate404 ==
    \A k \in DOMAIN tool_calls :
        (tool_calls[k].name = "commit_file_changes_tool" /\ Truthy(GITHUB_TOKEN)) =>
            LET calls == tool_calls[k].api_calls
                status == StatusOf(tool_calls[k].result)
            IN  \/ HasRaised(tool_calls[k].result) /\ tool_calls[k].args.file_path = "docs"
                \/ \E i \in DOMAIN calls :
                       /\ calls[i].request.method = "update_file"
                       /\ calls[i].response.raised = "UnknownObjectException"
                \/ /\ Len(WritesOf(calls)) <= 1
                   /\ ~HasRaised(tool_calls[k].result)
                   /\ status \in {"file_updated", "file_created", "error_api"}
                   /\ status = "file_updated" <=>
                          /\ ReadFoundFile(calls)
                          /\ OneAcceptedWrite(calls, "update_file")
                          /\ WritesOf(calls)[1].request.args.sha
                                 = ReadOf(calls)[1].response.value.sha
                   /\ status = "file_created" <=>
                          /\ ReadFoundNothing(calls)
                          /\ OneAcceptedWrite(calls, "create_file")

\* C26: create_github_repository_tool does not call create_repo when the name
\* holds "/" or a space (it returns "error_validation" before any GitHub call),
\* nor when the existence check finds a repository of that name with the user
\* (it returns "error_exists"); it calls create_repo at most once, and only
\* right after the existence check reported the repository absent.
C26_CreationOnlyAfterAbsence ==
    \A k \in DOMAIN tool_calls :
        tool_calls[k].name = "create_github_repository_tool" =>
            LET calls == tool_calls[k].api_calls
                name == tool_calls[k].args.repo_name
            IN  /\ NameHasSlashOrSpace(name) =>
                       /\ StatusOf(tool_calls[k].result) = "error_validation"
                       /\ calls = <<>>
                /\ \A i \in DOMAIN calls :
                       (calls[i].request.method = "user.get_repo"
                            /\ calls[i].response.raised = "none") =>
                           /\ StatusOf(tool_calls[k].result) = "error_exists"
                           /\ CallsOf(calls, {"create_repo"}) = <<>>
                /\ Len(CallsOf(calls, {"create_repo"})) <= 1
                /\ \A i \in DOMAIN calls :
                       calls[i].request.method = "create_repo" =>
                           /\ calls[i].request.args.name = name
                           /\ i > 1
                           /\ calls[i - 1].request.method = "user.get_repo"
                           /\ calls[i - 1].request.args.name = name
                           /\ calls[i - 1].response.raised = "UnknownObjectException"

\* a name with a space is refused, a free name next to it would be created
C26_Witness ==
    /\ Truthy(GITHUB_TOKEN)
    /\ App \in DOMAIN repositories
    /\ \E k \in DOMAIN tool_calls :
           /\ tool_calls[k].name = "create_github_repository_tool"
           /\ tool_calls[k].args.repo_name = <<"a", " ", "b">>
           /\ tool_calls[k].result.status = "error_validation"
           /\ tool_calls[k].api_calls = <<>>

\* TODO.md on the default branch of the repository, as a text
TodoText(remote) ==
    IF HasFile(remote, App, DefaultBranch, "TODO.md")
    THEN remote[App].branches[DefaultBranch]["TODO.md"].content
    ELSE <<>>

\* the items of a TODO text: what follows the header or a bullet
Entries(text) ==
    SelectSeq([i \in DOMAIN text |->
                  IF i > 1 /\ text[i - 1] \in {"# Project TODOs\n\n- ", "\n- "}
                  THEN <<text[i]>> ELSE <<>>],
              LAMBDA e : e # <<>>)

\* the items occur in the entries, in their order
RECURSIVE OccurInOrder(_, _)
OccurInOrder(items, entries) ==
    IF items = <<>> THEN TRUE
    ELSE IF entries = <<>> THEN FALSE
    ELSE IF Head(items) = Head(entries) THEN OccurInOrder(Tail(items), Tail(entries))
    ELSE OccurInOrder(items, Tail(entries))

TodoSucceeded(c) ==
    /\ c.name = "update_github_todo_md_tool"
    /\ ~HasRaised(c.result)
    /\ "todo_status" \in DOMAIN c.result

\* the task summaries of the successful calls, in call order
SummariesSoFar == [k \in DOMAIN SelectSeq(tool_calls, TodoSucceeded) |->
                      SelectSeq(tool_calls, TodoSucceeded)[k].args.task_summary]

\* a successful call wrote the text it read and one more item, or the header
\* and the item
WroteOneMoreItem(c) ==
    /\ Len(WritesOf(c.api_calls)) = 1
    /\ WritesOf(c.api_calls)[1].response.raised = "none"
    /\ \/ /\ ReadFoundFile(c.api_calls)
          /\ WritesOf(c.api_calls)[1].request.method = "update_file"
          /\ WritesOf(c.api_calls)[1].request.args.content
                 = ReadOf(c.api_calls)[1].response.value.content \o <<"\n- ">>
                       \o c.args.task_summary
       \/ /\ ReadFoundNothing(c.api_calls)
          /\ WritesOf(c.api_calls)[1].request.method = "create_file"
          /\ WritesOf(c.api_calls)[1].request.args.content
                 = <<"# Project TODOs\n\n- ">> \o c.args.task_summary

\* C27: _update_repo_todo_logic only appends: a successful call on an existing
\* TODO.md writes the content it read followed by "\n- " and the task summary,
\* and on a missing one creates it with the header and that item; so after any
\* sequence of successful calls TODO.md holds every task summary passed so
\* far, in call order, and no earlier entry is lost.
C27_TodoIsAppendOnly ==
    /\ \A k \in DOMAIN tool_calls :
           TodoSucceeded(tool_calls[k]) => WroteOneMoreItem(tool_calls[k])
    /\ OccurInOrder(SummariesSoFar, Entries(TodoText(repositories)))

\* two calls succeeded on a TODO.md that held notes: both items follow them
C27_Witness ==
    /\ Len(tool_calls) = 2
    /\ TodoSucceeded(tool_calls[1])
    /\ TodoSucceeded(tool_calls[2])
    /\ tool_calls[1].args.task_summary = <<"plan">>
    /\ tool_calls[2].args.task_summary = <<"build">>
    /\ TodoText(repositories) = <<"notes", "\n- ", "plan", "\n- ", "build">>

\* the calls of create_github_pr_with_fixes_tool in which apply_fixes found
\* the repository
FoundRepository(c) ==
    /\ c.name = "create_github_pr_with_fixes_tool"
    /\ c.api_calls # <<>>
    /\ c.api_calls[1].request.method = "get_repo"
    /\ c.api_calls[1].response.raised = "none"

\* ... and created the branch of the fixes
BranchCreated(c) ==
    /\ FoundRepository(c)
    /\ Len(c.api_calls) >= 3
    /\ c.api_calls[2].request.method = "get_branch"
    /\ c.api_calls[2].request.args.branch = c.args.base_branch
    /\ c.api_calls[3].request.method = "create_git_ref"
    /\ c.api_calls[3].request.args.ref.branch = "lighthouse-fixes"
    /\ c.api_calls[3].request.args.sha = c.api_calls[2].response.value.commit.sha
    /\ c.api_calls[3].response.raised = "none"

\* ... or failed to create it
BranchFailed(c) ==
    /\ FoundRepository(c)
    /\ ~BranchCreated(c)

\* the API calls first..last are one attempt of the fix: a read of its path
\* on the branch of the fixes, then calls on that path only, whose writes
\* carry the fix, of which GitHub accepted one at most
IsAttempt(calls, first, last, fix) ==
    /\ first <= last
    /\ calls[first].request.method = "get_contents"
    /\ calls[first].request.args.ref = "lighthouse-fixes"
    /\ \A i \in first..last :
           /\ calls[i].request.method \in {"get_contents", "update_file", "create_file"}
           /\ calls[i].request.args.path = fix.file_path
           /\ calls[i].request.method \in {"update_file", "create_file"} =>
                  /\ calls[i].request.args.branch = "lighthouse-fixes"
                  /\ calls[i].request.args.content = fix.fixed_content
                  /\ calls[i].request.args.message
                         = <<"Fix: ">> \o fix.issue_title \o <<"\n\n">> \o fix.description
    /\ Cardinality({i \in first..last :
                       /\ calls[i].request.method \in {"update_file", "create_file"}
                       /\ calls[i].response.raised = "none"}) <= 1

\* the API calls first..last are one attempt of each fix, in the order of the list
AttemptsInListOrder(calls, first, last, fixes) ==
    IF fixes = <<>> THEN last = first - 1
    ELSE \E start \in [DOMAIN fixes -> first..last] :
             /\ start[1] = first
             /\ \A k \in DOMAIN fixes :
                    IsAttempt(calls, start[k],
                              IF k = Len(fixes) THEN last ELSE start[k + 1] - 1, fixes[k])

\* the description of the pull request names the fix
Lists(body, fix) ==
    \E i \in DOMAIN body :
        /\ body[i].part = "fix"
        /\ body[i].issue_title = fix.issue_title
        /\ body[i].description = fix.description

\* the last API call opens the one draft pull request, whose description
\* lists every fix
OneDraftPullRequestLast(c) ==
    /\ Len(CallsOf(c.api_calls, {"create_pull"})) = 1
    /\ c.api_calls[Len(c.api_calls)].request.method = "create_pull"
    /\ c.api_calls[Len(c.api_calls)].request.args.head = "lighthouse-fixes"
    /\ c.api_calls[Len(c.api_calls)].request.args.base = c.args.base_branch
    /\ c.api_calls[Len(c.api_calls)].request.args.draft = TRUE
    /\ \A k \in DOMAIN c.args.fixes :
           Lists(c.api_calls[Len(c.api_calls)].request.args.body, c.args.fixes[k])

C28_BranchFailureEndsInErrorString ==
    \A k \in DOMAIN tool_calls :
        BranchFailed(tool_calls[k]) =>
            /\ WritesOf(tool_calls[k].api_calls) = <<>>
            /\ CallsOf(tool_calls[k].api_calls, {"create_pull"}) = <<>>
            /\ Len(tool_calls[k].api_calls) <= 3
            /\ ~HasRaised(tool_calls[k].result)
            /\ "html_url" \notin DOMAIN tool_calls[k].result
            /\ tool_calls[k].result.text = "Error creating pull request with fixes: "
            /\ repositories[App].pulls = <<>>

\* the branch was there before the call: GitHub refuses the reference
C28_Witness ==
    \E k \in DOMAIN tool_calls :
        /\ BranchFailed(tool_calls[k])
        /\ tool_calls[k].args.fixes # <<>>
        /\ Len(tool_calls[k].api_calls) = 3
        /\ tool_calls[k].api_calls[3].request.method = "create_git_ref"
        /\ tool_calls[k].api_calls[3].response = GithubException(422)
        /\ tool_calls[k].result.e = "GithubException"

\* the agent node has just answered, and its answer carries no tool call
AnsweredWithoutToolCalls ==
    /\ graph_node = "should_continue"
    /\ Last(messages).type = "ai"
    /\ Last(messages).tool_calls = <<>>

Ended == graph_node = END

\* one step of the graph, by the edges of the claim
RoutedStep ==
    /\ graph_node # END
    /\ graph_node = "agent" => graph_node' = "should_continue"
    /\ graph_node = "should_continue" =>
           /\ Last(messages).type = "ai"
           /\ Last(messages).tool_calls # <<>> => graph_node' = "tool_executor"
           /\ Last(messages).tool_calls = <<>> => graph_node' = "__end__"
    /\ graph_node = "tool_executor" => graph_node' = "agent"
    /\ graph_node' = "tool_executor" => graph_node = "should_continue"
    /\ graph_node' = "__end__" => AnsweredWithoutToolCalls

\* C23: the compiled graph starts at the node agent; after every agent step
\* control goes to tool_executor if and only if the last message carries tool
\* calls, and otherwise the run ends; after every tool_executor step control
\* returns to agent.  So a run ends only right after an agent step without tool
\* calls, tool_executor never runs twice in a row, and the run terminates if
\* and only if the model at some point answers without tool calls.
C23_RoutingAndTermination ==
    /\ graph_node = "agent"
    /\ [][RoutedStep]_vars
    /\ [](Ended => (Last(messages).type = "ai" /\ Last(messages).tool_calls = <<>>))
    /\ AnsweredWithoutToolCalls ~> Ended

\* a run that went through tool_executor and then ended
C23_Witness ==
    /\ Ended
    /\ Len(messages) = 4
    /\ messages[2].type = "ai"
    /\ messages[2].tool_calls = <<"commit_file_changes_tool">>
    /\ messages[3].type = "tool"
    /\ messages[4] = AIMessage(<<>>)
====
